---- MODULE Spec2Model ----
(***************************************************************************)
(* Operator-instance construction and multiple-input-set expansion of      *)
(* nvidia.dali.ops (dali/python/nvidia/dali/ops/__init__.py).              *)
(*                                                                         *)
(* Python values are records tagged by their type in field t.  A dict is a *)
(* sequence of [k, v] entries with pairwise distinct keys, in insertion    *)
(* order.  An exception is a record [exc, msg] whose msg is the sequence   *)
(* of the pieces the f-string is built from, numbers as str() prints them.  *)
(***************************************************************************)
EXTENDS Integers, Sequences, FiniteSets, TLC

VARIABLES
    op_count,      \* _OpCounter._op_count: the next value of count(0)
    lock,          \* _OpCounter._lock: the thread holding it, or NoThread
    alloc,         \* per thread: where it stands inside _OpCounter.__init__
    counters,      \* the _OpCounter objects constructed so far
    operator,      \* the Operator object (descriptor) the callers hold, or NoOperator
    ctor,          \* outcome of the Operator.__init__ that has just finished
    nodes,         \* id -> the _OperatorInstance constructed with that id
    sinks,         \* the current pipeline's sink list
    frame,         \* per thread: the Operator.__call__ in progress
    result,        \* outcome of the Operator.__call__ that has just finished
    pipeline,      \* whether _Pipeline.current() is a pipeline (not None)
    conditionals,  \* _conditionals.conditionals_enabled()
    returned       \* what the helper function a caller applied last returned

vars == <<op_count, lock, alloc, counters, operator, ctor, nodes, sinks, frame, result, pipeline, conditionals, returned>>

----------------------------------------------------------------------------
(* Bounds of the model                                                     *)

\* the calls of one thread: no call or construction starts once this many
\* ids are handed out
MaxNodes == 2
\* longest list given as a positional input
MaxList == 3
\* _OpCounter objects constructed in the allocation specification
MaxCounters == 5
\* the sequences of calls: no call or construction starts once this many ids
\* are handed out
MaxIds == 4

Threads == {1, 2}
NoThread == 0
\* the threads constructing _OpCounter objects in the allocation specification
AllocThreads == {1, 2, 3}

----------------------------------------------------------------------------
(* Python values                                                           *)

None == [t |-> "None"]
PyInt(v) == [t |-> "int", value |-> v]
PyBool(b) == [t |-> "bool", b |-> b]
PyStr(s) == [t |-> "str", s |-> s]
NdArray(v) == [t |-> "ndarray", value |-> v]
Object == [t |-> "object"]
List(items) == [t |-> "list", items |-> items]
Tuple(items) == [t |-> "tuple", items |-> items]
ScalarConstant(v) == [t |-> "ScalarConstant", value |-> v]
\* _DataNode(name, device, source): source is the id of the producing instance.
\* Every DataNode object of the model is built once, with a (name, source) of
\* its own, so equal records are the same object.
DataNode(name, device, source) == [t |-> "DataNode", name |-> name, device |-> device, source |-> source]

isinstance(x, types) == x.t \in types

Range(s) == {s[i] : i \in DOMAIN s}

\* dict operations, on sequences of [k, v] entries
Keys(d) == {d[i].k : i \in DOMAIN d}
KeyList(d) == [i \in DOMAIN d |-> d[i].k]
Lookup(d, k) == d[CHOOSE i \in DOMAIN d : d[i].k = k].v
GetOr(d, k, default) == IF k \in Keys(d) THEN Lookup(d, k) ELSE default
Del(d, k) == SelectSeq(d, LAMBDA e : e.k # k)
Put(d, k, v) ==
    IF k \in Keys(d) THEN [i \in DOMAIN d |-> IF d[i].k = k THEN [k |-> k, v |-> v] ELSE d[i]]
    ELSE Append(d, [k |-> k, v |-> v])
IsDict(d) == \A i, j \in DOMAIN d : d[i].k = d[j].k => i = j

----------------------------------------------------------------------------
(* SchemaView: the per-operator metadata the code consults                 *)

NoMeta == [renamed_to |-> "", removed |-> FALSE, msg |-> ""]

OpSchema(cls) ==
    CASE cls = "Crop" ->
           [MinNumInput |-> 1, MaxNumInput |-> 1, NumOutput |-> 1,
            TensorArguments |-> {"anchor"}, NoPrune |-> FALSE, Deprecated |-> FALSE,
            DeprecatedInFavorOf |-> "", DeprecationMessage |-> "",
            InputDevice |-> <<"">>,
            DeprecatedArgs |-> {"old", "gone"},
            DeprecatedArgMeta |-> [a \in {"old", "gone"} |->
                IF a = "old" THEN [renamed_to |-> "new", removed |-> FALSE, msg |-> "use new"]
                ELSE [renamed_to |-> "", removed |-> TRUE, msg |-> "gone is ignored"]]]
      [] cls = "Mix" ->
           [MinNumInput |-> 1, MaxNumInput |-> 3, NumOutput |-> 2,
            TensorArguments |-> {"anchor", "size"}, NoPrune |-> FALSE, Deprecated |-> FALSE,
            DeprecatedInFavorOf |-> "", DeprecationMessage |-> "",
            InputDevice |-> <<"", "cpu", "">>,
            DeprecatedArgs |-> {},
            DeprecatedArgMeta |-> [a \in {} |-> NoMeta]]
      [] cls = "Legacy" ->
           [MinNumInput |-> 1, MaxNumInput |-> 1, NumOutput |-> 1,
            TensorArguments |-> {}, NoPrune |-> FALSE, Deprecated |-> TRUE,
            DeprecatedInFavorOf |-> "Crop", DeprecationMessage |-> "Legacy is slow",
            InputDevice |-> <<"">>,
            DeprecatedArgs |-> {},
            DeprecatedArgMeta |-> [a \in {} |-> NoMeta]]
      [] cls = "Keep" ->
           [MinNumInput |-> 1, MaxNumInput |-> 1, NumOutput |-> 1,
            TensorArguments |-> {}, NoPrune |-> TRUE, Deprecated |-> FALSE,
            DeprecatedInFavorOf |-> "", DeprecationMessage |-> "",
            InputDevice |-> <<"">>,
            DeprecatedArgs |-> {},
            DeprecatedArgMeta |-> [a \in {} |-> NoMeta]]
      [] cls = "Dump" ->
           [MinNumInput |-> 1, MaxNumInput |-> 1, NumOutput |-> 0,
            TensorArguments |-> {}, NoPrune |-> FALSE, Deprecated |-> FALSE,
            DeprecatedInFavorOf |-> "", DeprecationMessage |-> "",
            InputDevice |-> <<"">>,
            DeprecatedArgs |-> {},
            DeprecatedArgMeta |-> [a \in {} |-> NoMeta]]
      [] OTHER ->
           [MinNumInput |-> 0, MaxNumInput |-> 0, NumOutput |-> 2,
            TensorArguments |-> {}, NoPrune |-> FALSE, Deprecated |-> FALSE,
            DeprecatedInFavorOf |-> "", DeprecationMessage |-> "",
            InputDevice |-> <<>>,
            DeprecatedArgs |-> {},
            DeprecatedArgMeta |-> [a \in {} |-> NoMeta]]

\* schema.GetInputDevice(idx): "" stands for None (idx counts from 0)
GetInputDevice(schema, idx) ==
    IF idx + 1 \in DOMAIN schema.InputDevice THEN schema.InputDevice[idx + 1] ELSE ""

\* sorted(): the ascending order of the argument names in use
ArgOrder == <<"anchor", "device", "gone", "name", "ndim", "new", "old", "preserve", "size">>
Rank(k) == CHOOSE i \in DOMAIN ArgOrder : ArgOrder[i] = k

----------------------------------------------------------------------------
(* _OpCounter                                                              *)

\* next(self._op_count): the value handed out, and the counter afterwards
NextValue(c) == c
\* a counter that hands out the same value again
Advance_stuck(c) == c
Advance(c) == c + 1

----------------------------------------------------------------------------
(* Exceptions (the backquotes of the messages are left out)               *)

NoError == [exc |-> "", msg |-> <<>>]
Raise(exc, msg) == [exc |-> exc, msg |-> msg]

----------------------------------------------------------------------------
(* _separate_kwargs                                                        *)

\* nvidia.dali.types._is_scalar_value: Python numbers and booleans
_is_scalar_value(value) == isinstance(value, {"int", "bool"})

\* the reserved names device and ndim are classified by their value
is_call_arg_byvalue(name, value) ==
    IF name = "name" \/ isinstance(value, {"DataNode"}) THEN TRUE
    ELSE IF isinstance(value, {"str", "list", "tuple", "ScalarConstant"}) THEN FALSE
    ELSE ~ _is_scalar_value(value)
is_call_arg(name, value) ==
    IF name = "device" THEN FALSE
    ELSE IF name = "ndim" THEN FALSE
    ELSE IF name = "name" \/ isinstance(value, {"DataNode"}) THEN TRUE
    ELSE IF isinstance(value, {"str", "list", "tuple", "ScalarConstant"}) THEN FALSE
    ELSE ~ _is_scalar_value(value)

to_scalar(scalar) ==
    IF isinstance(scalar, {"ScalarConstant"}) THEN PyInt(scalar.value) ELSE scalar

\* lines 100-105: one turn of the loop, r being what the turns before left
SeparateEntry(r, name, value) ==
    IF value = None THEN r
    ELSE IF is_call_arg(name, value)
         THEN [r EXCEPT !.call_args = Put(@, name, value)]
         ELSE [r EXCEPT !.init_args = Put(@, name, to_scalar(value))]

RECURSIVE _separate_kwargs(_)
_separate_kwargs(kwargs) ==
    IF kwargs = <<>> THEN [init_args |-> <<>>, call_args |-> <<>>]
    ELSE SeparateEntry(_separate_kwargs(SubSeq(kwargs, 1, Len(kwargs) - 1)),
                       kwargs[Len(kwargs)].k, kwargs[Len(kwargs)].v)

----------------------------------------------------------------------------
(* The backend OpSpec a node writes its arguments, inputs and outputs into *)

OpSpec(schema_name) ==
    [schema |-> schema_name, args |-> <<>>, inputs |-> <<>>, arg_inputs |-> <<>>, outputs |-> <<>>]
AddArg(spec, key, value) == [spec EXCEPT !.args = Append(@, [k |-> key, v |-> value])]
AddArgEmptyList(spec, key) == [spec EXCEPT !.args = Append(@, [k |-> key, v |-> [t |-> "EmptyList"]])]
AddInput(spec, name, device) == [spec EXCEPT !.inputs = Append(@, [name |-> name, device |-> device])]
AddArgumentInput(spec, key, name) == [spec EXCEPT !.arg_inputs = Append(@, [k |-> key, name |-> name])]
AddOutput(spec, name, device) == [spec EXCEPT !.outputs = Append(@, [name |-> name, device |-> device])]

\* lines 112-123: one turn of the loop
AddSpecArg(spec, key, value) ==
    IF value = None THEN spec
    ELSE IF isinstance(value, {"list", "tuple"}) /\ Len(value.items) = 0
         THEN AddArgEmptyList(spec, key)
         ELSE AddArg(spec, key, value)

RECURSIVE _add_spec_args(_, _)
_add_spec_args(spec, kwargs) ==
    IF kwargs = <<>> THEN spec
    ELSE _add_spec_args(AddSpecArg(spec, Head(kwargs).k, Head(kwargs).v), Tail(kwargs))

\* _check_arg_input: the exception it raises, or NoError
_check_arg_input(schema, op_name, name) ==
    IF name = "name" THEN NoError
    ELSE IF name \notin schema.TensorArguments
         THEN Raise("TypeError", <<"The argument ", name, " for operator ", op_name,
                                   " should not be a DataNode but a ", "scalar">>)
         ELSE NoError

RECURSIVE FirstError(_)
FirstError(errors) ==
    IF errors = <<>> THEN NoError
    ELSE IF Head(errors) # NoError THEN Head(errors) ELSE FirstError(Tail(errors))

----------------------------------------------------------------------------
(* Operator.__init__                                                       *)

NoOperator ==
    [cls |-> "", device |-> "", preserve |-> FALSE, spec |-> OpSpec(""), call_args |-> <<>>]

DeprecatedConflict(op_name, arg_name, new_name) ==
    Raise("TypeError", <<"Operator ", op_name, " got an unexpected'", arg_name,
                         "' deprecated argument when '", new_name, "'was already provided">>)

\* the value is copied to the new name and the deprecated name stays
Replaced_keeping(kwargs, arg_name, meta) ==
    IF meta.renamed_to # "" THEN Put(kwargs, meta.renamed_to, Lookup(kwargs, arg_name))
    ELSE kwargs
\* lines 333-341: kwargs after the deprecated argument is renamed or removed
Replaced(kwargs, arg_name, meta) ==
    IF meta.renamed_to # ""
    THEN Del(Put(kwargs, meta.renamed_to, Lookup(kwargs, arg_name)), arg_name)
    ELSE IF meta.removed THEN Del(kwargs, arg_name) ELSE kwargs

Warned(r, msg) == [r EXCEPT !.warnings = <<msg>> \o @]

\* lines 324-345: the deprecated arguments are renamed or removed, in the
\* order of the snapshot arg_names; yields the kwargs, the exception raised
\* (or NoError) and the warnings emitted
RECURSIVE ReplaceDeprecated(_, _, _, _)
ReplaceDeprecated(schema, op_name, arg_names, kwargs) ==
    IF arg_names = <<>> THEN [kwargs |-> kwargs, err |-> NoError, warnings |-> <<>>]
    ELSE IF Head(arg_names) \notin schema.DeprecatedArgs
    THEN ReplaceDeprecated(schema, op_name, Tail(arg_names), kwargs)
    ELSE IF /\ schema.DeprecatedArgMeta[Head(arg_names)].renamed_to # ""
            /\ schema.DeprecatedArgMeta[Head(arg_names)].renamed_to \in Keys(kwargs)
    THEN [kwargs |-> kwargs,
          err |-> DeprecatedConflict(op_name, Head(arg_names),
                                     schema.DeprecatedArgMeta[Head(arg_names)].renamed_to),
          warnings |-> <<>>]
    ELSE Warned(ReplaceDeprecated(schema, op_name, Tail(arg_names),
                                  Replaced(kwargs, Head(arg_names), schema.DeprecatedArgMeta[Head(arg_names)])),
                schema.DeprecatedArgMeta[Head(arg_names)].msg)

\* lines 310-313
CheckArgInputs(schema, op_name, call_args) ==
    FirstError([i \in DOMAIN call_args |-> _check_arg_input(schema, op_name, call_args[i].k)])

\* lines 315-320
PreserveArg(kwargs) ==
    IF "preserve" \in Keys(kwargs) THEN Lookup(kwargs, "preserve").b ELSE FALSE

\* lines 302-308, 321-322 and 347-348: the Operator object
Operator_store(cls, device, schema, call_args, preserve, dep) ==
    IF dep.err # NoError THEN [err |-> dep.err, warnings |-> dep.warnings, op |-> NoOperator]
    ELSE [err |-> NoError, warnings |-> dep.warnings,
          op |-> [cls |-> cls, device |-> device, preserve |-> preserve \/ schema.NoPrune,
                  spec |-> _add_spec_args(AddArg(AddArg(OpSpec(cls), "device", PyStr(device)),
                                                 "preserve", PyBool(preserve)), dep.kwargs),
                  call_args |-> call_args]]

Operator_checked(cls, device, schema, sep, check) ==
    IF check # NoError THEN [err |-> check, warnings |-> <<>>, op |-> NoOperator]
    ELSE Operator_store(cls, device, schema, sep.call_args, PreserveArg(sep.init_args),
                        ReplaceDeprecated(schema, cls, KeyList(Del(sep.init_args, "preserve")),
                                          Del(sep.init_args, "preserve")))

Operator_separated(cls, device, schema, sep) ==
    Operator_checked(cls, device, schema, sep, CheckArgInputs(schema, cls, sep.call_args))

\* The Operator object, or the exception its constructor raised
Operator_init(cls, device, kwargs) ==
    Operator_separated(cls, device, OpSchema(cls), _separate_kwargs(kwargs))

----------------------------------------------------------------------------
(* Operator instances (graph nodes) and the constants promoted to nodes    *)

\* The fields of an _OperatorInstance.  npos is len(inputs) at line 148 and
\* batch the id of the first instance the same __call__ created (or the
\* instance's own id): both only record the history, no code reads them.
Instance(id, cls, device, preserve, name, inputs, npos, spec, batch) ==
    [id |-> id, relation_id |-> id, cls |-> cls, device |-> device, preserve |-> preserve,
     name |-> name, inputs |-> inputs, npos |-> npos, spec |-> spec, outputs |-> <<>>,
     batch |-> batch]

NoInstance == Instance(0 - 1, "", "", FALSE, "", <<>>, 0, OpSpec(""), 0 - 1)

\* what nvidia.dali.types.Constant can make a constant node of
Convertible(value) == isinstance(value, {"int", "bool", "ndarray"})

\* the node ops.Constant(device = device, ...)() builds, with its one output
ConstantNode(id, name, device) ==
    [Instance(id, "Constant", device, FALSE, name, <<>>, 0,
              AddOutput(AddArg(OpSpec("Constant"), "device", PyStr(device)), name, device), id)
     EXCEPT !.outputs = <<DataNode(name, device, id)>>]

\* _Constant(value, device = device): promotes a literal to a constant node in
\* the world w = [op_count, nodes] and yields the node's only output
_Constant(w, value, device) ==
    IF ~ Convertible(value)
    THEN [w |-> w, out |-> value, err |-> Raise("TypeError", <<"cannot convert ", value.t>>)]
    ELSE [w |-> [op_count |-> Advance(w.op_count),
                 nodes |-> (NextValue(w.op_count) :>
                                ConstantNode(NextValue(w.op_count),
                                             "__Constant_" \o ToString(NextValue(w.op_count)), device))
                           @@ w.nodes],
          out |-> DataNode("__Constant_" \o ToString(NextValue(w.op_count)), device,
                           NextValue(w.op_count)),
          err |-> NoError]

_instantiate_constant_node(w, device, constant) == _Constant(w, PyInt(constant.value), device)

----------------------------------------------------------------------------
(* _preprocess_inputs                                                      *)

is_input(x) ==
    IF isinstance(x, {"DataNode", "ScalarConstant"}) THEN TRUE
    ELSE /\ isinstance(x, {"list"})
         /\ \E i \in DOMAIN x.items : isinstance(x.items[i], {"DataNode"})
         /\ \A i \in DOMAIN x.items : isinstance(x.items[i], {"DataNode", "ScalarConstant"})

\* the device the schema declares for the input is not looked at
InputDevice_default(schema, idx, device) == IF device = "gpu" THEN "gpu" ELSE "cpu"
\* line 888 (idx counts from 0)
InputDevice(schema, idx, device) ==
    IF GetInputDevice(schema, idx) # "" THEN GetInputDevice(schema, idx)
    ELSE IF device = "gpu" THEN "gpu" ELSE "cpu"

\* lines 899-900, c being what lines 891-897 left
InstantiateInput(c, input_device) ==
    IF c.err = NoError /\ ~ isinstance(c.out, {"DataNode"})
    THEN _instantiate_constant_node(c.w, input_device, c.out)
    ELSE c

\* lines 886-900 for one input
PreprocessInput(w, inp, input_device) ==
    IF is_input(inp) THEN [w |-> w, out |-> inp, err |-> NoError]
    ELSE InstantiateInput(IF ~ isinstance(inp, {"ScalarConstant"})
                          THEN _Constant(w, inp, input_device)
                          ELSE [w |-> w, out |-> inp, err |-> NoError],
                          input_device)

RECURSIVE _preprocess_inputs(_, _, _, _, _, _)
\* lines 895-897 and 902 (idx counts from 1 here, the message counts from 0)
PreprocessStep(c, inputs, idx, op_name, device, schema) ==
    IF c.err # NoError
    THEN [w |-> c.w, inputs |-> inputs,
          err |-> Raise("TypeError", <<"when calling operator ", op_name, ": Input ", ToString(idx - 1),
                                       " is neither a DALI DataNode nor a list of data nodes but ",
                                       inputs[idx].t>>)]
    ELSE _preprocess_inputs(c.w, [inputs EXCEPT ![idx] = c.out], idx + 1, op_name, device, schema)

_preprocess_inputs(w, inputs, idx, op_name, device, schema) ==
    IF idx > Len(inputs) THEN [w |-> w, inputs |-> inputs, err |-> NoError]
    ELSE PreprocessStep(PreprocessInput(w, inputs[idx], InputDevice(schema, idx - 1, device)),
                        inputs, idx, op_name, device, schema)

----------------------------------------------------------------------------
(* Multiple input sets                                                     *)

_detect_multiple_input_sets(inputs) ==
    \E i \in DOMAIN inputs : isinstance(inputs[i], {"list"})

_safe_len(input) == IF isinstance(input, {"list"}) THEN Len(input.items) ELSE 1

Max(S) == CHOOSE m \in S : \A n \in S : n <= m

LengthMismatch(op_name) ==
    Raise("ValueError", <<"All argument lists for Multiple Input Sets used with operator ",
                          op_name, " must have the same length">>)

CommonLength(inputs, op_name, arg_list_len) ==
    IF \E i \in DOMAIN inputs :
          isinstance(inputs[i], {"list"}) /\ Len(inputs[i].items) # arg_list_len
    THEN [len |-> 0, err |-> LengthMismatch(op_name)]
    ELSE [len |-> arg_list_len, err |-> NoError]

\* the common length, or the exception raised
_check_common_length(inputs, op_name) ==
    CommonLength(inputs, op_name, Max({_safe_len(inputs[i]) : i \in DOMAIN inputs}))

_unify_lists(inputs, arg_list_len) ==
    [p \in DOMAIN inputs |->
        IF isinstance(inputs[p], {"list"}) THEN inputs[p].items
        ELSE [i \in 1..arg_list_len |-> inputs[p]]]

\* the sets are taken from the last to the first
_repack_list_reversed(sets) ==
    [i \in 1..Len(sets[1]) |-> [s \in DOMAIN sets |-> sets[s][Len(sets[1]) + 1 - i]]]
_repack_list(sets) ==
    [i \in 1..Len(sets[1]) |-> [s \in DOMAIN sets |-> sets[s][i]]]

_repack_input_sets(inputs) == _repack_list(inputs)

\* the outputs of operators with one output are not flattened
_repack_output_sets_nested(outputs) == _repack_list(outputs)
_repack_output_sets(outputs) ==
    IF Len(outputs) > 1 /\ Len(outputs[1]) = 1
    THEN [i \in DOMAIN outputs |-> outputs[i][1]]
    ELSE _repack_list(outputs)

\* only the minimum is checked
_check_schema_num_inputs_min(schema, op_name, inputs) ==
    IF Len(inputs) < schema.MinNumInput
    THEN Raise("ValueError", <<"Operator ", op_name, " expects ",
                               "from ", ToString(schema.MinNumInput), " to ", ToString(schema.MaxNumInput),
                               " inputs, ",
                               "but received ", ToString(Len(inputs)), ".">>)
    ELSE NoError
\* only the maximum is checked
_check_schema_num_inputs_max(schema, op_name, inputs) ==
    IF Len(inputs) > schema.MaxNumInput
    THEN Raise("ValueError", <<"Operator ", op_name, " expects ",
                               "from ", ToString(schema.MinNumInput), " to ", ToString(schema.MaxNumInput),
                               " inputs, ",
                               "but received ", ToString(Len(inputs)), ".">>)
    ELSE NoError
_check_schema_num_inputs(schema, op_name, inputs) ==
    IF Len(inputs) < schema.MinNumInput \/ Len(inputs) > schema.MaxNumInput
    THEN Raise("ValueError", <<"Operator ", op_name, " expects ",
                               "from ", ToString(schema.MinNumInput), " to ", ToString(schema.MaxNumInput),
                               " inputs, ",
                               "but received ", ToString(Len(inputs)), ".">>)
    ELSE NoError

\* the lists are zipped up to the shortest, whatever their lengths
InputSets_zipped(inputs, c) ==
    [input_sets |->
        [i \in 1..(CHOOSE m \in {_safe_len(inputs[p]) : p \in DOMAIN inputs} :
                      \A p \in DOMAIN inputs :
                          isinstance(inputs[p], {"list"}) => m <= Len(inputs[p].items)) |->
            [p \in DOMAIN inputs |->
                IF isinstance(inputs[p], {"list"}) THEN inputs[p].items[i] ELSE inputs[p]]],
     err |-> NoError]
\* lines 471-473, c being what _check_common_length returned
InputSets(inputs, c) ==
    IF c.err # NoError THEN [input_sets |-> <<>>, err |-> c.err]
    ELSE [input_sets |-> _repack_input_sets(_unify_lists(inputs, c.len)), err |-> NoError]

_build_input_sets(inputs, op_name) ==
    IF _detect_multiple_input_sets(inputs)
    THEN InputSets(inputs, _check_common_length(inputs, op_name))
    ELSE [input_sets |-> <<inputs>>, err |-> NoError]

----------------------------------------------------------------------------
(* _OperatorInstance.__init__                                              *)

\* _conditionals.apply_conditional_split_to_args(inputs, kwargs): the graph-
\* rewrite hook, a synchronous function without side effects
apply_conditional_split_to_args(inputs, kwargs) == [inputs |-> inputs, kwargs |-> kwargs]

RECURSIVE PromoteInputs(_, _, _, _)
\* line 142, c being what _instantiate_constant_node returned
PromoteStep(c, inputs, i, default_input_device) ==
    PromoteInputs(c.w, [inputs EXCEPT ![i] = c.out], i + 1, default_input_device)

\* lines 139-142: every ScalarConstant among the inputs becomes a constant node
PromoteInputs(w, inputs, i, default_input_device) ==
    IF i > Len(inputs) THEN [w |-> w, inputs |-> inputs]
    ELSE IF isinstance(inputs[i], {"ScalarConstant"})
    THEN PromoteStep(_instantiate_constant_node(w, default_input_device, inputs[i]),
                     inputs, i, default_input_device)
    ELSE PromoteInputs(w, inputs, i + 1, default_input_device)

\* no name counts as specified in __init__
AlreadySpecified_never(k, default_call_args) == FALSE
\* line 158
AlreadySpecified(k, default_call_args) == k \in Keys(default_call_args)

\* lines 153-160: call_args starts as a copy of default_call_args
RECURSIVE MergeCallArgs(_, _, _)
MergeCallArgs(default_call_args, call_args, kwargs) ==
    IF kwargs = <<>> THEN [call_args |-> call_args, err |-> NoError]
    ELSE IF Head(kwargs).v = None
    THEN MergeCallArgs(default_call_args, call_args, Tail(kwargs))
    ELSE IF AlreadySpecified(Head(kwargs).k, default_call_args)
    THEN [call_args |-> call_args,
          err |-> Raise("ValueError", <<"The argument ", Head(kwargs).k,
                                        " was already specified in __init__.">>)]
    ELSE MergeCallArgs(default_call_args, Put(call_args, Head(kwargs).k, Head(kwargs).v),
                       Tail(kwargs))

\* the default name lacks the id
InstanceName_plain(call_args, cls, id) ==
    IF GetOr(call_args, "name", None) # None THEN Lookup(call_args, "name").s
    ELSE "__" \o cls
\* lines 162-166
InstanceName(call_args, cls, id) ==
    IF GetOr(call_args, "name", None) # None THEN Lookup(call_args, "name").s
    ELSE "__" \o cls \o "_" \o ToString(id)

\* lines 168-173
RECURSIVE AddInputs(_, _, _)
AddInputs(spec, inputs, i) ==
    IF i > Len(inputs) THEN [spec |-> spec, err |-> NoError]
    ELSE IF ~ isinstance(inputs[i], {"DataNode"})
    THEN [spec |-> spec,
          err |-> Raise("TypeError", <<"Expected inputs of type DataNode. Received input of type '",
                                       inputs[i].t, "'.">>)]
    ELSE AddInputs(AddInput(spec, inputs[i].name, inputs[i].device), inputs, i + 1)

\* the keys in descending order
RECURSIVE sorted_descending(_)
sorted_descending(keys) ==
    IF keys = {} THEN <<>>
    ELSE <<CHOOSE k \in keys : \A j \in keys : Rank(k) >= Rank(j)>>
         \o sorted_descending(keys \ {CHOOSE k \in keys : \A j \in keys : Rank(k) >= Rank(j)})
\* sorted(call_args.keys())
RECURSIVE sorted(_)
sorted(keys) ==
    IF keys = {} THEN <<>>
    ELSE <<CHOOSE k \in keys : \A j \in keys : Rank(k) <= Rank(j)>>
         \o sorted(keys \ {CHOOSE k \in keys : \A j \in keys : Rank(k) <= Rank(j)})

\* lines 180-189: the argument input as a DataNode
PromoteArgInput(w, arg_inp) ==
    IF isinstance(arg_inp, {"ScalarConstant"}) THEN _instantiate_constant_node(w, "cpu", arg_inp)
    ELSE IF ~ isinstance(arg_inp, {"DataNode"}) THEN _Constant(w, arg_inp, "cpu")
    ELSE [w |-> w, out |-> arg_inp, err |-> NoError]

RECURSIVE AddArgumentInputs(_, _, _, _, _, _)
\* the value as given is appended, not the node it was promoted to
ArgumentInput_raw(c, op, keys, call_args, spec, inputs) ==
    IF c.err # NoError \/ _check_arg_input(OpSchema(op.cls), op.cls, Head(keys)) # NoError
    THEN [w |-> c.w, spec |-> spec, inputs |-> inputs,
          err |-> Raise("TypeError", <<"The argument ", Head(keys)>>)]
    ELSE AddArgumentInputs(c.w, op, Tail(keys), call_args,
                           AddArgumentInput(spec, Head(keys), c.out.name),
                           Append(inputs, Lookup(call_args, Head(keys))))
\* lines 185-194 for the key Head(keys), c being what the promotion returned
ArgumentInput(c, op, keys, call_args, spec, inputs) ==
    IF c.err # NoError
    THEN [w |-> c.w, spec |-> spec, inputs |-> inputs,
          err |-> Raise("TypeError", <<"Expected inputs of type DataNode or convertible to ",
                                       "constant nodes. Received input ", Head(keys),
                                       " of type '", c.out.t, "'.">>)]
    ELSE IF _check_arg_input(OpSchema(op.cls), op.cls, Head(keys)) # NoError
    THEN [w |-> c.w, spec |-> spec, inputs |-> inputs,
          err |-> _check_arg_input(OpSchema(op.cls), op.cls, Head(keys))]
    ELSE AddArgumentInputs(c.w, op, Tail(keys), call_args,
                           AddArgumentInput(spec, Head(keys), c.out.name), Append(inputs, c.out))

\* lines 175-194, over the sorted keys
AddArgumentInputs(w, op, keys, call_args, spec, inputs) ==
    IF keys = <<>> THEN [w |-> w, spec |-> spec, inputs |-> inputs, err |-> NoError]
    ELSE IF Head(keys) = "name" \/ Lookup(call_args, Head(keys)) = None
    THEN AddArgumentInputs(w, op, Tail(keys), call_args, spec, inputs)
    ELSE ArgumentInput(PromoteArgInput(w, Lookup(call_args, Head(keys))),
                       op, keys, call_args, spec, inputs)

\* the instance as __init__ leaves it, g being what lines 175-194 returned
Instance_built(id, npos, name, g, op, batch) ==
    [w |-> g.w, err |-> g.err,
     inst |-> IF g.err # NoError THEN NoInstance
              ELSE Instance(id, op.cls, op.device, op.preserve, name, g.inputs, npos, g.spec,
                            IF batch < 0 THEN id ELSE batch)]

\* lines 168-194, a being what lines 168-173 returned
Instance_named(id, w, inputs, call_args, name, a, op, batch) ==
    IF a.err # NoError THEN [w |-> w, err |-> a.err, inst |-> NoInstance]
    ELSE Instance_built(id, Len(inputs), name,
                        AddArgumentInputs(w, op, sorted(Keys(call_args)), call_args, a.spec, inputs),
                        op, batch)

\* lines 153-173, m being what lines 153-160 returned
Instance_merged(id, w, inputs, spec, m, op, batch) ==
    IF m.err # NoError THEN [w |-> w, err |-> m.err, inst |-> NoInstance]
    ELSE Instance_named(id, w, inputs, m.call_args, InstanceName(m.call_args, op.cls, id),
                        AddInputs(spec, inputs, 1), op, batch)

\* lines 150-160, sep being what _separate_kwargs returned
Instance_separated(id, w, inputs, sep, op, batch) ==
    Instance_merged(id, w, inputs, _add_spec_args(op.spec, sep.init_args),
                    MergeCallArgs(op.call_args, op.call_args, sep.call_args), op, batch)

\* lines 145-150, p being what lines 136-143 returned
Instance_promoted(id, p, op, kwargs, cond, batch) ==
    IF cond
    THEN Instance_separated(id, p.w, apply_conditional_split_to_args(p.inputs, kwargs).inputs,
                            _separate_kwargs(apply_conditional_split_to_args(p.inputs, kwargs).kwargs),
                            op, batch)
    ELSE Instance_separated(id, p.w, p.inputs, _separate_kwargs(kwargs), op, batch)

\* _op_name(name, "fn"): the name of the operator in the fn API
_op_name(name) ==
    CASE name = "Legacy" -> "fn.legacy"
      [] name = "Crop" -> "fn.crop"
      [] name = "Mix" -> "fn.mix"
      [] name = "Dump" -> "fn.dump"
      [] OTHER -> ""

\* the message without the operator to use instead
DeprecatedMessage_bare(schema, op_name) ==
    <<"WARNING: ", _op_name(op_name), " is now deprecated">>
    \o (IF schema.DeprecationMessage # "" THEN <<"\n", schema.DeprecationMessage>> ELSE <<>>)
\* lines 198-204: the message of the warning
DeprecatedMessage(schema, op_name) ==
    <<"WARNING: ", _op_name(op_name), " is now deprecated">>
    \o (IF _op_name(schema.DeprecatedInFavorOf) # ""
        THEN <<". Use ", _op_name(schema.DeprecatedInFavorOf), " instead.">> ELSE <<>>)
    \o (IF schema.DeprecationMessage # "" THEN <<"\n", schema.DeprecationMessage>> ELSE <<>>)

\* lines 196-207: the warnings the constructor of an instance of op emits
InstanceWarnings(op) ==
    IF OpSchema(op.cls).Deprecated THEN <<DeprecatedMessage(OpSchema(op.cls), op.cls)>> ELSE <<>>

\* _OperatorInstance(inputs, op, **kwargs) in the world w = [op_count, nodes];
\* cond is conditionals_enabled().  Yields the world afterwards, the exception
\* raised (or NoError) and the instance.
_OperatorInstance_init(w, inputs, op, kwargs, cond, batch) ==
    Instance_promoted(NextValue(w.op_count),
                      PromoteInputs([w EXCEPT !.op_count = Advance(@)], inputs, 1,
                                    IF op.device = "gpu" THEN "gpu" ELSE "cpu"),
                      op, kwargs, cond, batch)

----------------------------------------------------------------------------
(* _OperatorInstance.generate_outputs and unwrapped_outputs                *)

\* lines 222-223: CalculateOutputs + CalculateAdditionalOutputs
num_output(inst) == OpSchema(inst.cls).NumOutput

\* lines 217-220
output_device(inst) == IF inst.device = "gpu" \/ inst.device = "mixed" THEN "gpu" ELSE "cpu"

\* every output has the name of the node
OutputNode_unindexed(inst, i, n) == DataNode(inst.name, output_device(inst), inst.id)
\* lines 231-234
OutputNode(inst, i, n) ==
    DataNode(IF n > 1 THEN inst.name \o "[" \o ToString(i) \o "]" ELSE inst.name,
             output_device(inst), inst.id)

\* lines 226-227
SinkNode(inst) ==
    DataNode(inst.cls \o "_id_" \o ToString(inst.id) \o "_sink", output_device(inst), inst.id)

RECURSIVE AddOutputs(_, _)
AddOutputs(spec, outs) ==
    IF outs = <<>> THEN spec
    ELSE AddOutputs(AddOutput(spec, Head(outs).name, Head(outs).device), Tail(outs))

\* the sink of an operator without outputs is registered without looking for
\* the current pipeline
Generated_unchecked(inst, sink_list, current, n, outs) ==
    IF n = 0 /\ inst.preserve
    THEN [inst |-> inst, sinks |-> Append(sink_list, SinkNode(inst)), err |-> NoError]
    ELSE [inst |-> [inst EXCEPT !.outputs = outs, !.spec = AddOutputs(@, outs)],
          sinks |-> IF inst.preserve THEN sink_list \o outs ELSE sink_list,
          err |-> NoError]
\* every output is registered as a sink, preserve or not
Generated_always(inst, sink_list, current, n, outs) ==
    IF ~ current /\ inst.preserve
    THEN [inst |-> inst, sinks |-> sink_list,
          err |-> Raise("RuntimeError", <<"Operators with side-effects ",
                                          "require a current pipeline">>)]
    ELSE IF n = 0
    THEN [inst |-> inst, sinks |-> Append(sink_list, SinkNode(inst)), err |-> NoError]
    ELSE [inst |-> [inst EXCEPT !.outputs = outs, !.spec = AddOutputs(@, outs)],
          sinks |-> sink_list \o outs, err |-> NoError]
\* lines 214-238, n being num_output and outs the DataNodes of lines 230-234
Generated(inst, sink_list, current, n, outs) ==
    IF ~ current /\ inst.preserve
    THEN [inst |-> inst, sinks |-> sink_list,
          err |-> Raise("RuntimeError", <<"Operators with side-effects ",
                                          "require a current pipeline">>)]
    ELSE IF n = 0 /\ inst.preserve
    THEN [inst |-> inst, sinks |-> Append(sink_list, SinkNode(inst)), err |-> NoError]
    ELSE [inst |-> [inst EXCEPT !.outputs = outs, !.spec = AddOutputs(@, outs)],
          sinks |-> IF inst.preserve THEN sink_list \o outs ELSE sink_list,
          err |-> NoError]

\* generate_outputs on inst, with the sink list of the current pipeline
\* (current is whether there is one)
generate_outputs(inst, sink_list, current) ==
    Generated(inst, sink_list, current, num_output(inst),
              [i \in 1..num_output(inst) |-> OutputNode(inst, i - 1, num_output(inst))])

unwrapped_outputs(inst) ==
    IF Len(inst.outputs) = 1 THEN inst.outputs[1] ELSE List(inst.outputs)

----------------------------------------------------------------------------
(* The state                                                               *)

\* an Operator.__call__ in progress: the operator, the positional inputs as
\* given and as preprocessed, the keyword arguments, the input sets, the ids
\* of op_instances, and the sink list and counter the call started from
IdleFrame ==
    [pc |-> "idle", op |-> NoOperator, given |-> <<>>, inputs |-> <<>>, kwargs |-> <<>>,
     input_sets |-> <<>>, instances |-> <<>>, sinks_before |-> <<>>, count_before |-> 0,
     warnings |-> <<>>, hook |-> <<>>]

NewFrame(op, given, kwargs, sink_list, count) ==
    [IdleFrame EXCEPT !.pc = "loop", !.op = op, !.given = given, !.inputs = given,
                      !.kwargs = kwargs, !.sinks_before = sink_list, !.count_before = count]

\* how the __call__ of frame f ended in thread t
Outcome(t, f, status, err, value) ==
    [status |-> status, thread |-> t, err |-> err, value |-> value, op |-> f.op,
     given |-> f.given, inputs |-> f.inputs, kwargs |-> f.kwargs, input_sets |-> f.input_sets,
     instances |-> f.instances, sinks_before |-> f.sinks_before, count_before |-> f.count_before,
     warnings |-> f.warnings, hook |-> f.hook]

NoResult == Outcome(NoThread, IdleFrame, "none", NoError, None)

NoCtor == [status |-> "none", cls |-> "", kwargs |-> <<>>, err |-> NoError, warnings |-> <<>>,
           op |-> NoOperator]

\* no helper function was applied
NoReturn == [fn |-> "", args |-> <<>>, value |-> <<>>]

IdleAlloc == [pc |-> "idle", id |-> 0 - 1, seen |-> {}]

\* the graph every behaviour starts from: one reader node with two outputs
SourceOp == Operator_init("Source", "cpu", <<>>).op

SourceInstance ==
    generate_outputs(_OperatorInstance_init([op_count |-> 0, nodes |-> <<>>], <<>>, SourceOp,
                                            <<>>, FALSE, 0 - 1).inst,
                     <<>>, TRUE).inst

InitCommon ==
    /\ op_count = Advance(0)
    /\ lock = NoThread
    /\ alloc = [t \in AllocThreads |-> IdleAlloc]
    /\ counters = {[id |-> SourceInstance.id, thread |-> NoThread, seen |-> {}]}
    /\ operator = NoOperator
    /\ ctor = NoCtor
    /\ nodes = (SourceInstance.id :> SourceInstance)
    /\ sinks = <<>>
    /\ frame = [t \in Threads |-> IdleFrame]
    /\ result = NoResult
    /\ returned = NoReturn
    \* conditionals are enabled only inside a pipeline definition
    /\ pipeline \in BOOLEAN
    /\ conditionals \in IF pipeline THEN BOOLEAN ELSE {FALSE}

World == [op_count |-> op_count, nodes |-> nodes]

----------------------------------------------------------------------------
(* Operator.__init__ and Operator.__call__ as steps                        *)

\* the caller has taken the outcome of the call or construction before
Taken == result = NoResult /\ ctor = NoCtor /\ returned = NoReturn

\* Operator(device = device, **kwargs) of class cls
OperatorInit(cls, device, kwargs, budget) ==
    /\ Taken
    /\ op_count < budget
    /\ \E r \in {Operator_init(cls, device, kwargs)} :
          /\ ctor' = [status |-> IF r.err = NoError THEN "ok" ELSE "error", cls |-> cls,
                      kwargs |-> kwargs, err |-> r.err, warnings |-> r.warnings, op |-> r.op]
          /\ operator' = IF r.err = NoError THEN r.op ELSE operator
    /\ UNCHANGED <<op_count, lock, alloc, counters, nodes, sinks, frame, result, pipeline, conditionals, returned>>

\* the exception err leaves __call__ of thread t, whose frame was f
Raised(t, f, err) ==
    /\ result' = Outcome(t, f, "error", err, None)
    /\ frame' = [frame EXCEPT ![t] = IdleFrame]

\* lines 371-374, b being what _build_input_sets returned
CallBuilt(t, f, b) ==
    IF b.err # NoError THEN Raised(t, f, b.err)
    ELSE /\ frame' = [frame EXCEPT ![t] = [f EXCEPT !.input_sets = b.input_sets]]
         /\ result' = result

\* lines 369-371, p being what _preprocess_inputs returned
CallPreprocessed(t, f, p) ==
    /\ op_count' = p.w.op_count
    /\ nodes' = p.w.nodes
    /\ IF p.err # NoError THEN Raised(t, f, p.err)
       ELSE CallBuilt(t, [f EXCEPT !.inputs = p.inputs], _build_input_sets(p.inputs, f.op.cls))

\* operator(*inputs, **kwargs) up to the loop over the input sets
CallBegin(t, inputs, kwargs, budget) ==
    /\ Taken
    /\ frame[t].pc = "idle"
    /\ operator # NoOperator
    /\ op_count < budget
    /\ IF _check_schema_num_inputs(OpSchema(operator.cls), operator.cls, inputs) # NoError
       THEN /\ Raised(t, NewFrame(operator, inputs, kwargs, sinks, op_count),
                      _check_schema_num_inputs(OpSchema(operator.cls), operator.cls, inputs))
            /\ UNCHANGED <<op_count, nodes>>
       ELSE CallPreprocessed(t, NewFrame(operator, inputs, kwargs, sinks, op_count),
                             _preprocess_inputs(World, inputs, 1, operator.cls, operator.device,
                                                OpSchema(operator.cls)))
    /\ UNCHANGED <<lock, alloc, counters, operator, ctor, sinks, pipeline, conditionals, returned>>

\* line 377, f being the frame after line 376 and g what generate_outputs returned
InstanceGenerated(t, f, w, g) ==
    /\ nodes' = (g.inst.id :> g.inst) @@ w.nodes
    /\ sinks' = g.sinks
    /\ IF g.err # NoError THEN Raised(t, f, g.err)
       ELSE frame' = [frame EXCEPT ![t] = f] /\ result' = result

\* lines 145-146: the calls of the hook so far, after the constructor of an
\* instance passed its inputs and keyword arguments through it
SplitCalled(cond, hook, inputs, kwargs) ==
    IF cond
    THEN Append(hook, [fn |-> "apply_conditional_split_to_args", value |-> None,
                       inputs |-> inputs, kwargs |-> kwargs])
    ELSE hook

\* the instance works on the spec of the operator itself
OperatorAfterInstance_shared(op, inst) == [op EXCEPT !.spec = inst.spec]
\* lines 132-133 and 153: the instance works on op.spec.copy() and on a new
\* dict of the call arguments, so the Operator is as it was
OperatorAfterInstance(op, inst) == op

\* lines 376-377, c being what _OperatorInstance returned
InstanceCreated(t, f, c) ==
    /\ op_count' = c.w.op_count
    /\ operator' = IF c.err = NoError /\ operator = f.op
                   THEN OperatorAfterInstance(f.op, c.inst) ELSE operator
    /\ IF c.err # NoError
       THEN nodes' = c.w.nodes /\ sinks' = sinks /\ Raised(t, f, c.err)
       ELSE InstanceGenerated(t, [f EXCEPT !.instances = Append(@, c.inst.id),
                                            !.warnings = @ \o InstanceWarnings(f.op),
                                            !.op = OperatorAfterInstance(f.op, c.inst)], c.w,
                              generate_outputs(c.inst, sinks, pipeline))

\* one turn of the loop over the input sets
CreateInstance(t) ==
    /\ Taken
    /\ frame[t].pc = "loop"
    /\ Len(frame[t].instances) < Len(frame[t].input_sets)
    /\ InstanceCreated(t, [frame[t] EXCEPT !.hook =
                              SplitCalled(conditionals, @,
                                          frame[t].input_sets[Len(frame[t].instances) + 1],
                                          frame[t].kwargs)],
                       _OperatorInstance_init(World,
                                              frame[t].input_sets[Len(frame[t].instances) + 1],
                                              frame[t].op, frame[t].kwargs, conditionals,
                                              IF frame[t].instances = <<>> THEN 0 - 1
                                              ELSE frame[t].instances[1]))
    /\ UNCHANGED <<lock, alloc, counters, ctor, pipeline, conditionals, returned>>

\* the id of the instance created last
FirstInstance_last(op_instances) == op_instances[Len(op_instances)]
\* line 380: op_instances[0].id (op_instances holds the ids here)
FirstInstance(op_instances) == op_instances[1]

\* lines 380-382
TieInstances(all, op_instances) ==
    [id \in DOMAIN all |->
        IF id \in Range(op_instances)
        THEN [all[id] EXCEPT !.relation_id = FirstInstance(op_instances)]
        ELSE all[id]]

\* lines 385-391
Repack(all, op_instances) ==
    IF Len(op_instances) = 1 THEN unwrapped_outputs(all[op_instances[1]])
    ELSE _repack_output_sets([i \in DOMAIN op_instances |-> all[op_instances[i]].outputs])

\* the outputs are registered whatever the number of instances
Registered_always(cond, hook, op_instances, value, input_sets, kwargs) ==
    IF cond
    THEN Append(hook, [fn |-> "register_data_nodes", value |-> value,
                       inputs |-> input_sets[1], kwargs |-> kwargs])
    ELSE hook
\* lines 392-396: the calls of the hook so far, after the end of __call__
Registered(cond, hook, op_instances, value, input_sets, kwargs) ==
    IF cond /\ Len(op_instances) = 1
    THEN Append(hook, [fn |-> "register_data_nodes", value |-> value,
                       inputs |-> input_sets[1], kwargs |-> kwargs])
    ELSE hook

\* the rest of __call__, after the loop
CallReturn(t) ==
    /\ Taken
    /\ frame[t].pc = "loop"
    /\ Len(frame[t].instances) = Len(frame[t].input_sets)
    /\ nodes' = TieInstances(nodes, frame[t].instances)
    /\ \E f \in {[frame[t] EXCEPT !.hook =
                      Registered(conditionals, @, frame[t].instances,
                                 Repack(nodes, frame[t].instances), frame[t].input_sets,
                                 frame[t].kwargs)]} :
          result' = IF conditionals /\ Len(f.instances) # 1
                    THEN Outcome(t, f, "error",
                                 Raise("ValueError", <<"Multiple input sets are not supported with ",
                                                       "conditional execution">>), None)
                    ELSE Outcome(t, f, "ok", NoError, Repack(nodes, f.instances))
    /\ frame' = [frame EXCEPT ![t] = IdleFrame]
    /\ UNCHANGED <<op_count, lock, alloc, counters, operator, ctor, sinks, pipeline, conditionals, returned>>

\* the caller takes the outcome
Resume ==
    /\ ~ Taken
    /\ result' = NoResult
    /\ ctor' = NoCtor
    /\ returned' = NoReturn
    /\ UNCHANGED <<op_count, lock, alloc, counters, operator, nodes, sinks, frame, pipeline, conditionals>>

----------------------------------------------------------------------------
(* _OpCounter.__init__ as steps of a thread                                *)

\* _OpCounter() is entered: seen records the ids whose allocation is complete
AllocBegin(t, budget) ==
    /\ alloc[t].pc = "idle"
    /\ Cardinality(counters) + Cardinality({u \in AllocThreads : alloc[u].pc # "idle"}) < budget
    /\ alloc' = [alloc EXCEPT ![t] = [pc |-> "acquire", id |-> 0 - 1,
                                      seen |-> {c.id : c \in counters}]]
    /\ UNCHANGED <<op_count, lock, counters, operator, ctor, nodes, sinks, frame, result, pipeline, conditionals, returned>>

\* with self._lock: entered
Acquire(t) ==
    /\ alloc[t].pc = "acquire"
    /\ lock = NoThread
    /\ lock' = t
    /\ alloc' = [alloc EXCEPT ![t].pc = "next"]
    /\ UNCHANGED <<op_count, counters, operator, ctor, nodes, sinks, frame, result, pipeline, conditionals, returned>>

\* self._id = next(self._op_count)
TakeNext(t) ==
    /\ alloc[t].pc = "next"
    /\ alloc' = [alloc EXCEPT ![t].pc = "release", ![t].id = NextValue(op_count)]
    /\ op_count' = Advance(op_count)
    /\ UNCHANGED <<lock, counters, operator, ctor, nodes, sinks, frame, result, pipeline, conditionals, returned>>

\* with self._lock: left, and __init__ returns
Release(t) ==
    /\ alloc[t].pc = "release"
    /\ lock' = NoThread
    /\ counters' = counters \cup {[id |-> alloc[t].id, thread |-> t, seen |-> alloc[t].seen]}
    /\ alloc' = [alloc EXCEPT ![t] = IdleAlloc]
    /\ UNCHANGED <<op_count, operator, ctor, nodes, sinks, frame, result, pipeline, conditionals, returned>>

----------------------------------------------------------------------------
(* The callers: what they construct and what they pass                     *)

\* ids of the instances whose __call__ has not returned
InProgress == UNION {Range(frame[t].instances) : t \in Threads}

\* the caller holds outputs of node id: a call returned them
Held(all, id) ==
    /\ id \in DOMAIN all
    /\ id \notin InProgress
    /\ all[id].cls # "Constant"
    /\ ~ (conditionals /\ \E other \in DOMAIN all : other # id /\ all[other].batch = all[id].batch)

Reverse(s) == [i \in DOMAIN s |-> s[Len(s) + 1 - i]]

\* the handles the callers hold, the latest first
RECURSIVE HandlesFrom(_, _)
HandlesFrom(all, id) ==
    IF id < 0 THEN <<>>
    ELSE (IF Held(all, id) THEN Reverse(all[id].outputs) ELSE <<>>) \o HandlesFrom(all, id - 1)

Pool == HandlesFrom(nodes, op_count - 1)

Pick(pool, k) == pool[(k % Len(pool)) + 1]

Shape(kind, n) == [kind |-> kind, n |-> n]

\* a handle, a ScalarConstant, a literal, an object no constant can be made
\* of, a list of a handle and a ScalarConstant, lists of handles
Shapes ==
    {Shape("h", 1), Shape("sc", 1), Shape("lit", 1), Shape("bad", 1), Shape("mixed", 2)}
    \cup {Shape("list", n) : n \in 2..MaxList}

\* the input of the given shape at position p (from 0)
Item(shape, pool, p) ==
    CASE shape.kind = "h" -> Pick(pool, p)
      [] shape.kind = "sc" -> ScalarConstant(5)
      [] shape.kind = "lit" -> PyInt(5)
      [] shape.kind = "bad" -> Object
      [] shape.kind = "mixed" -> List(<<Pick(pool, p), ScalarConstant(6)>>)
      [] OTHER -> List([i \in 1..shape.n |-> Pick(pool, p + i - 1)])

Inputs(shapes, pool) == [p \in DOMAIN shapes |-> Item(shapes[p], pool, p - 1)]

\* up to two inputs of any shape, and a literal before two lists
ShapeTuples ==
    UNION {[1..n -> Shapes] : n \in 0..2}
    \cup {<<Shape("lit", 1), Shape("list", 2), Shape("list", m)>> : m \in {2, MaxList}}

Kw(k, v) == [k |-> k, v |-> v]

CallKwargs(pool) ==
    {<<>>, <<Kw("anchor", NdArray(7))>>, <<Kw("anchor", Pick(pool, 0))>>}

Preset(cls, kwargs) == [cls |-> cls, kwargs |-> kwargs]

Presets ==
    {Preset("Crop", <<>>), Preset("Crop", <<Kw("preserve", PyBool(TRUE))>>), Preset("Mix", <<>>),
     Preset("Mix", <<Kw("preserve", PyBool(TRUE))>>),
     Preset("Dump", <<>>), Preset("Dump", <<Kw("preserve", PyBool(TRUE))>>)}

Init == InitCommon

\* no call is under way
Idle == \A t \in Threads : frame[t].pc = "idle"

Construct ==
    /\ Idle
    /\ \E preset \in Presets : OperatorInit(preset.cls, "cpu", preset.kwargs, MaxNodes)

Call ==
    \E pool \in {Pool} : \E shapes \in ShapeTuples : \E kwargs \in CallKwargs(pool) :
        CallBegin(1, Inputs(shapes, pool), kwargs, MaxNodes)

Next == Construct \/ Call \/ CreateInstance(1) \/ CallReturn(1) \/ Resume

\* one caller, every shape of positional inputs
Spec == Init /\ [][Next]_vars

AllocNext ==
    \E t \in AllocThreads :
        AllocBegin(t, MaxCounters) \/ Acquire(t) \/ TakeNext(t) \/ Release(t)

\* threads constructing _OpCounter objects, step by step
SpecAlloc == Init /\ [][AllocNext]_vars

\* two callers of an operator of one input, without keyword arguments
ThreadPresets == {Preset("Crop", <<>>)}

ThreadShapes == {<<Shape("h", 1)>>} \cup {<<Shape("list", n)>> : n \in 2..MaxList}

ThreadConstruct ==
    \E preset \in ThreadPresets : OperatorInit(preset.cls, "cpu", preset.kwargs, MaxNodes)

ThreadCall ==
    \E t \in Threads : \E pool \in {Pool} : \E shapes \in ThreadShapes :
        CallBegin(t, Inputs(shapes, pool), <<>>, MaxNodes)

ThreadsNext ==
    \/ ThreadConstruct
    \/ ThreadCall
    \/ \E t \in Threads : CreateInstance(t)
    \/ \E t \in Threads : CallReturn(t)
    \/ Resume

\* the calls of two threads, interleaved between the turns of their loops
SpecThreads == Init /\ [][ThreadsNext]_vars

\* keyword arguments at construction and at call time: scalars, handles,
\* literals and None, under the names size and anchor
ArgPresets(pool) ==
    {Preset("Crop", kwargs) :
        kwargs \in {<<>>, <<Kw("size", PyInt(3))>>, <<Kw("anchor", Pick(pool, 0))>>,
                    <<Kw("anchor", NdArray(7))>>, <<Kw("anchor", PyInt(1))>>,
                    <<Kw("size", PyInt(3)), Kw("anchor", Pick(pool, 0))>>,
                    <<Kw("size", Pick(pool, 0))>>}}

ArgCallKwargs(pool) ==
    {<<>>, <<Kw("size", PyInt(4))>>, <<Kw("size", None)>>, <<Kw("anchor", Pick(pool, 1))>>,
     <<Kw("anchor", NdArray(8))>>, <<Kw("anchor", PyInt(2))>>, <<Kw("anchor", None)>>,
     <<Kw("size", Pick(pool, 0))>>, <<Kw("size", NdArray(8))>>}

ArgShapes == {<<>>, <<Shape("h", 1)>>, <<Shape("list", 2)>>}

ArgsConstruct ==
    /\ Idle
    /\ \E pool \in {Pool} : \E preset \in ArgPresets(pool) : \E device \in {"cpu", "gpu"} :
          OperatorInit(preset.cls, device, preset.kwargs, MaxNodes)

ArgsCall ==
    \E pool \in {Pool} : \E shapes \in ArgShapes : \E kwargs \in ArgCallKwargs(pool) :
        CallBegin(1, Inputs(shapes, pool), kwargs, MaxNodes)

ArgsNext == ArgsConstruct \/ ArgsCall \/ CreateInstance(1) \/ CallReturn(1) \/ Resume

\* one caller, every kind of keyword argument
SpecArgs == Init /\ [][ArgsNext]_vars

\* construction-time keyword arguments under the deprecated names and their
\* replacement, in every order
CtorEntries ==
    {Kw("old", PyInt(1)), Kw("old", None), Kw("new", PyInt(2)), Kw("new", None),
     Kw("gone", PyInt(3)), Kw("size", PyInt(4))}

CtorKwargs == {kwargs \in UNION {[1..n -> CtorEntries] : n \in 0..3} : IsDict(kwargs)}

CtorConstruct ==
    \E cls \in {"Crop", "Mix"} : \E kwargs \in CtorKwargs :
        OperatorInit(cls, "cpu", kwargs, MaxNodes)

CtorNext == CtorConstruct \/ Resume

\* operators constructed with deprecated arguments
SpecCtor == Init /\ [][CtorNext]_vars

\* operators on every device, called with literals and handles
DeviceShapes ==
    UNION {[1..n -> {Shape("h", 1), Shape("lit", 1)}] : n \in 1..2}
    \cup {<<Shape("lit", 1), Shape("list", 2)>>, <<Shape("list", 2), Shape("lit", 1)>>}

DeviceConstruct ==
    /\ Idle
    /\ \E cls \in {"Crop", "Mix"} : \E device \in {"cpu", "gpu", "mixed"} :
          OperatorInit(cls, device, <<>>, MaxIds)

DeviceCall ==
    \E pool \in {Pool} : \E shapes \in DeviceShapes :
        CallBegin(1, Inputs(shapes, pool), <<>>, MaxIds)

DeviceNext == DeviceConstruct \/ DeviceCall \/ CreateInstance(1) \/ CallReturn(1) \/ Resume

\* one caller, several calls in a row, operators of every device
SpecDevices == Init /\ [][DeviceNext]_vars

\* operators called with and without the name keyword, several calls in a row
NamePresets ==
    {Preset("Crop", <<>>), Preset("Mix", <<>>), Preset("Crop", <<Kw("name", PyStr("m"))>>)}

NameCallKwargs == {<<>>, <<Kw("name", PyStr("n"))>>, <<Kw("name", None)>>}

NameShapes == {<<Shape("h", 1)>>, <<Shape("list", 2)>>}

NameConstruct ==
    /\ Idle
    /\ \E preset \in NamePresets : OperatorInit(preset.cls, "cpu", preset.kwargs, MaxIds)

NameCall ==
    \E pool \in {Pool} : \E shapes \in NameShapes : \E kwargs \in NameCallKwargs :
        CallBegin(1, Inputs(shapes, pool), kwargs, MaxIds)

NameNext == NameConstruct \/ NameCall \/ CreateInstance(1) \/ CallReturn(1) \/ Resume

\* one caller, several calls in a row, with names given
SpecNames == Init /\ [][NameNext]_vars

\* _separate_kwargs(kwargs), applied by a caller
Separate(kwargs) ==
    /\ Taken
    /\ returned' = [fn |-> "_separate_kwargs", args |-> kwargs, value |-> _separate_kwargs(kwargs)]
    /\ UNCHANGED <<op_count, lock, alloc, counters, operator, ctor, nodes, sinks, frame, result, pipeline, conditionals>>

\* keyword arguments of every kind of value under the reserved and other names
KwValues(pool) ==
    {None, PyInt(1), PyBool(TRUE), PyStr("s"), NdArray(7), Object, List(<<>>),
     List(<<PyInt(1)>>), Tuple(<<PyInt(1)>>), ScalarConstant(5), Pick(pool, 0)}

KwNames == {"device", "ndim", "name", "size", "anchor"}

KwEntries(pool) == {Kw(k, v) : k \in KwNames, v \in KwValues(pool)}

\* the function is applied on its own, before any operator is constructed
KwSeparate ==
    /\ Taken
    /\ operator = NoOperator
    /\ \E pool \in {Pool} : \E kwargs \in UNION {[1..n -> KwEntries(pool)] : n \in 0..2} :
          IsDict(kwargs) /\ Separate(kwargs)

\* calls with keywords whose value is None
KwPresets(pool) == {Preset("Crop", <<>>), Preset("Crop", <<Kw("anchor", Pick(pool, 0))>>)}

KwCallKwargs(pool) ==
    {<<>>, <<Kw("anchor", None)>>, <<Kw("size", None)>>, <<Kw("name", None)>>,
     <<Kw("size", PyInt(4)), Kw("anchor", None)>>, <<Kw("anchor", None), Kw("size", PyInt(4))>>,
     <<Kw("anchor", Pick(pool, 1)), Kw("size", None)>>, <<Kw("name", PyStr("n")), Kw("anchor", None)>>}

KwConstruct ==
    /\ Idle
    /\ \E pool \in {Pool} : \E preset \in KwPresets(pool) :
          OperatorInit(preset.cls, "cpu", preset.kwargs, MaxNodes)

KwCall ==
    \E pool \in {Pool} : \E kwargs \in KwCallKwargs(pool) :
        CallBegin(1, Inputs(<<Shape("h", 1)>>, pool), kwargs, MaxNodes)

KwNext ==
    KwSeparate \/ KwConstruct \/ KwCall \/ CreateInstance(1) \/ CallReturn(1) \/ Resume

\* _separate_kwargs applied to keyword arguments of every kind, and calls with
\* keywords that are None
SpecKw == Init /\ [][KwNext]_vars

\* an operator of two tensor arguments, bound at construction or given at
\* call time in either order
OrderPresets(pool) ==
    {Preset("Mix", <<>>), Preset("Mix", <<Kw("size", Pick(pool, 0))>>),
     Preset("Mix", <<Kw("anchor", Pick(pool, 1))>>)}

OrderCallKwargs(pool) ==
    {<<>>, <<Kw("anchor", Pick(pool, 0))>>, <<Kw("size", Pick(pool, 1))>>,
     <<Kw("size", Pick(pool, 1)), Kw("anchor", Pick(pool, 0))>>,
     <<Kw("anchor", Pick(pool, 0)), Kw("size", Pick(pool, 1))>>,
     <<Kw("size", NdArray(7)), Kw("name", PyStr("n")), Kw("anchor", Pick(pool, 0))>>,
     <<Kw("anchor", Pick(pool, 0)), Kw("name", PyStr("n")), Kw("size", NdArray(7))>>}

OrderShapes ==
    {<<Shape("h", 1)>>, <<Shape("h", 1), Shape("h", 1)>>, <<Shape("list", 2), Shape("h", 1)>>}

OrderConstruct ==
    /\ Idle
    /\ \E pool \in {Pool} : \E preset \in OrderPresets(pool) :
          OperatorInit(preset.cls, "cpu", preset.kwargs, MaxNodes)

OrderCall ==
    \E pool \in {Pool} : \E shapes \in OrderShapes : \E kwargs \in OrderCallKwargs(pool) :
        CallBegin(1, Inputs(shapes, pool), kwargs, MaxNodes)

OrderNext == OrderConstruct \/ OrderCall \/ CreateInstance(1) \/ CallReturn(1) \/ Resume

\* one caller, argument inputs bound and given in every order
SpecOrder == Init /\ [][OrderNext]_vars

\* a deprecated operator and an operator with deprecated arguments
DeprecatedPresets ==
    {Preset("Legacy", <<>>), Preset("Crop", <<>>), Preset("Crop", <<Kw("old", PyInt(1))>>),
     Preset("Crop", <<Kw("gone", PyInt(2))>>),
     Preset("Crop", <<Kw("old", PyInt(1)), Kw("gone", PyInt(2))>>),
     Preset("Crop", <<Kw("gone", PyInt(2)), Kw("size", PyInt(3)), Kw("old", PyInt(1))>>)}

DeprecatedShapes == {<<Shape("h", 1)>>, <<Shape("list", 2)>>, <<Shape("list", 3)>>}

DeprecatedConstruct ==
    /\ Idle
    /\ \E preset \in DeprecatedPresets : \E device \in {"cpu", "gpu"} :
          OperatorInit(preset.cls, device, preset.kwargs, MaxIds)

DeprecatedCall ==
    \E pool \in {Pool} : \E shapes \in DeprecatedShapes :
        CallBegin(1, Inputs(shapes, pool), <<>>, MaxIds)

DeprecatedNext ==
    DeprecatedConstruct \/ DeprecatedCall \/ CreateInstance(1) \/ CallReturn(1) \/ Resume

\* one caller, deprecated operators and arguments
SpecDeprecated == Init /\ [][DeprecatedNext]_vars

\* one descriptor called again and again with other keyword arguments
ReusePresets(pool) ==
    {Preset("Crop", <<>>), Preset("Crop", <<Kw("size", PyInt(3))>>),
     Preset("Mix", <<Kw("anchor", Pick(pool, 0))>>)}

ReuseCallKwargs(pool) ==
    {<<>>, <<Kw("size", PyInt(4))>>, <<Kw("ndim", PyInt(2))>>, <<Kw("name", PyStr("n"))>>,
     <<Kw("anchor", Pick(pool, 1))>>, <<Kw("anchor", NdArray(8))>>}

ReuseShapes == {<<Shape("h", 1)>>, <<Shape("list", 2)>>}

ReuseConstruct ==
    /\ Idle
    /\ operator = NoOperator
    /\ \E pool \in {Pool} : \E preset \in ReusePresets(pool) :
          OperatorInit(preset.cls, "cpu", preset.kwargs, MaxIds)

ReuseCall ==
    \E pool \in {Pool} : \E shapes \in ReuseShapes : \E kwargs \in ReuseCallKwargs(pool) :
        CallBegin(1, Inputs(shapes, pool), kwargs, MaxIds)

ReuseNext == ReuseConstruct \/ ReuseCall \/ CreateInstance(1) \/ CallReturn(1) \/ Resume

\* one caller, one descriptor, several calls
SpecReuse == Init /\ [][ReuseNext]_vars

\* operators with and without preserve, one of them marked no-prune by its
\* schema, called one after the other
PreservePresets ==
    {Preset("Crop", <<>>), Preset("Crop", <<Kw("preserve", PyBool(TRUE))>>),
     Preset("Dump", <<>>), Preset("Dump", <<Kw("preserve", PyBool(TRUE))>>),
     Preset("Keep", <<>>), Preset("Keep", <<Kw("preserve", PyBool(FALSE))>>),
     Preset("Mix", <<Kw("preserve", PyBool(TRUE))>>)}

PreserveShapes == {<<Shape("h", 1)>>, <<Shape("list", 2)>>}

PreserveConstruct ==
    /\ Idle
    /\ \E preset \in PreservePresets : OperatorInit(preset.cls, "cpu", preset.kwargs, MaxIds)

PreserveCall ==
    \E pool \in {Pool} : \E shapes \in PreserveShapes :
        CallBegin(1, Inputs(shapes, pool), <<>>, MaxIds)

PreserveNext == PreserveConstruct \/ PreserveCall \/ CreateInstance(1) \/ CallReturn(1) \/ Resume

\* one caller, several descriptors, several calls
SpecSinks == Init /\ [][PreserveNext]_vars

----------------------------------------------------------------------------
(* Properties                                                              *)

\* the _OpCounter objects that hold an id: the constructed ones and those of
\* the threads that have taken their id and not yet left __init__
Allocated ==
    counters \cup {[id |-> alloc[t].id, thread |-> t, seen |-> alloc[t].seen] :
                      t \in {u \in AllocThreads : alloc[u].pc = "release"}}

\* C1: no two _OpCounter objects hold the same id, whatever the interleaving
\* of the threads constructing them, and an object whose construction was
\* complete when the construction of another began holds the smaller id.
C1_IdsUniqueAndIncreasing ==
    /\ \A c1, c2 \in Allocated : c1 # c2 => c1.id # c2.id
    /\ \A c \in Allocated : \A s \in c.seen : s < c.id

\* two threads allocated concurrently, and a third allocation began after both
C1_ConcurrentAllocations ==
    \E c1, c2, c3 \in counters :
        /\ c1.thread # NoThread /\ c2.thread # NoThread /\ c1.thread # c2.thread
        /\ c1.id \notin c2.seen /\ c2.id \notin c1.seen
        /\ {c1.id, c2.id} \subseteq c3.seen

\* C2: a call that ends in an error leaves the sink list as it was before
\* the call.
C2_FailedCallKeepsSinks ==
    result.status = "error" => sinks = result.sinks_before

\* the number of input sets the positional inputs stand for: the length of
\* the lists among them, or 1 when none is a list
ExpectedSets(given) ==
    IF \E p \in DOMAIN given : isinstance(given[p], {"list"})
    THEN Len(given[CHOOSE p \in DOMAIN given : isinstance(given[p], {"list"})].items)
    ELSE 1

\* C3: when a call that stands for N input sets has returned, it has created
\* exactly N operator nodes, each has the id of the first of them as its
\* relation_id; and of every node whose call is over, the relation_id is at
\* most its id, and is its id exactly when the node is the first of its batch.
\* The calls of two threads interleave.
C3_RelationIds ==
    /\ result.status = "ok" =>
          /\ Len(result.instances) = ExpectedSets(result.given)
          /\ Cardinality({id \in DOMAIN nodes : nodes[id].batch = result.instances[1]})
                = ExpectedSets(result.given)
          /\ \A i \in DOMAIN result.instances :
                /\ nodes[result.instances[i]].relation_id = result.instances[1]
                /\ result.instances[1] <= result.instances[i]
    /\ \A id \in DOMAIN nodes \ InProgress :
          /\ nodes[id].relation_id <= id
          /\ nodes[id].relation_id = id <=> nodes[id].batch = id

\* a call of several input sets has returned, whose nodes were created in turn
\* with those of the other thread's call
C3_InterleavedBatch ==
    /\ result.status = "ok"
    /\ Len(result.instances) >= 2
    /\ \E i \in DOMAIN result.instances : \E id \in DOMAIN nodes :
          /\ nodes[id].batch # result.instances[1]
          /\ result.instances[1] < id
          /\ id < result.instances[i]

\* the input the instance records for the argument name k
ArgumentInputOf(inst, k) ==
    inst.inputs[inst.npos + CHOOSE i \in DOMAIN inst.spec.arg_inputs : inst.spec.arg_inputs[i].k = k]

\* a call of several input sets has returned
ManySets == result.status = "ok" /\ Len(result.instances) > 1

\* C4: after a call of N > 1 input sets with a keyword argument input, the N
\* nodes record the same handle for that argument name, be the value given a
\* DataNode or a literal that is promoted to a constant node.
C4_SameArgumentHandle ==
    ManySets =>
        \A e \in Range(result.kwargs) : \A i, j \in DOMAIN result.instances :
            ArgumentInputOf(nodes[result.instances[i]], e.k)
                = ArgumentInputOf(nodes[result.instances[j]], e.k)

\* C4 as amended: the N nodes record the DataNode given, the same for all;
\* of a literal each node records the output of a constant node of its own,
\* created in the call.
C4_ArgumentHandlePerKind ==
    ManySets =>
        \A e \in Range(result.kwargs) : \A i, j \in DOMAIN result.instances :
            IF isinstance(e.v, {"DataNode"})
            THEN ArgumentInputOf(nodes[result.instances[i]], e.k) = e.v
            ELSE /\ isinstance(ArgumentInputOf(nodes[result.instances[i]], e.k), {"DataNode"})
                 /\ ArgumentInputOf(nodes[result.instances[i]], e.k).source >= result.count_before
                 /\ nodes[ArgumentInputOf(nodes[result.instances[i]], e.k).source].cls = "Constant"
                 /\ i # j => ArgumentInputOf(nodes[result.instances[i]], e.k)
                                # ArgumentInputOf(nodes[result.instances[j]], e.k)

\* a call of the longest list of input sets, with a literal argument input,
\* has returned
C4_LiteralArgumentInput ==
    /\ ManySets
    /\ Len(result.instances) = MaxList
    /\ \E e \in Range(result.kwargs) : isinstance(e.v, {"ndarray"})

\* the fan-out positions: where the input is a list
FanOut(inputs) == {p \in DOMAIN inputs : isinstance(inputs[p], {"list"})}

\* the input sets of frame f are those its preprocessed inputs stand for
Expanded(f) ==
    IF FanOut(f.inputs) = {} THEN f.input_sets = <<f.inputs>>
    ELSE /\ Len(f.input_sets) = ExpectedSets(f.inputs)
         /\ \A i \in DOMAIN f.input_sets :
               /\ Len(f.input_sets[i]) = Len(f.inputs)
               /\ \A p \in DOMAIN f.inputs :
                     f.input_sets[i][p] = IF p \in FanOut(f.inputs) THEN f.inputs[p].items[i]
                                          ELSE f.inputs[p]

\* C5: positional inputs with lists of the common length B expand to B
\* tuples, tuple i holding element i of the list at a fan-out position and
\* the one input at any other position, in the order of the positions;
\* without a list the inputs are the one input set; and once the call has
\* returned, the B nodes hold the same handle at every position that is not
\* fanned out.
C5_ExpanderSameHandle ==
    /\ frame[1].pc = "loop" => Expanded(frame[1])
    /\ ManySets =>
          \A p \in DOMAIN result.inputs \ FanOut(result.inputs) :
              \A i, j \in DOMAIN result.instances :
                  nodes[result.instances[i]].inputs[p] = nodes[result.instances[j]].inputs[p]

\* C5 as amended: the expander as in C5; at a position that is not fanned out
\* the B nodes hold the input itself when it is a DataNode (given, or made of
\* a literal before the expansion), and of a ScalarConstant each node holds
\* the output of a constant node of its own.
C5_ExpanderHandlePerKind ==
    /\ frame[1].pc = "loop" => Expanded(frame[1])
    /\ ManySets =>
          \A p \in DOMAIN result.inputs \ FanOut(result.inputs) :
              \A i, j \in DOMAIN result.instances :
                  IF isinstance(result.inputs[p], {"DataNode"})
                  THEN nodes[result.instances[i]].inputs[p] = result.inputs[p]
                  ELSE /\ isinstance(result.inputs[p], {"ScalarConstant"})
                       /\ isinstance(nodes[result.instances[i]].inputs[p], {"DataNode"})
                       /\ nodes[nodes[result.instances[i]].inputs[p].source].cls = "Constant"
                       /\ i # j => nodes[result.instances[i]].inputs[p]
                                      # nodes[result.instances[j]].inputs[p]

\* a call of two inputs, a list and a ScalarConstant, has returned
C5_BroadcastScalarConstant ==
    /\ ManySets
    /\ FanOut(result.inputs) # {}
    /\ \E p \in DOMAIN result.inputs : isinstance(result.inputs[p], {"ScalarConstant"})

\* the lengths of the lists among the inputs
Lengths(inputs) == {Len(inputs[p].items) : p \in FanOut(inputs)}

\* the message of err holds the piece s
Names(err, s) == \E i \in DOMAIN err.msg : err.msg[i] = s

\* a call has ended whose lists given do not all have the same length, the
\* number of inputs being within the schema's bound and every input a handle,
\* a list of handles or a literal a constant can be made of
MismatchedCall ==
    /\ result.status # "none"
    /\ Cardinality(Lengths(result.given)) > 1
    /\ _check_schema_num_inputs(OpSchema(result.op.cls), result.op.cls, result.given) = NoError
    /\ \A p \in DOMAIN result.given : is_input(result.given[p]) \/ Convertible(result.given[p])

Supplied(kwargs) == {kwargs[i].k : i \in {j \in DOMAIN kwargs : kwargs[j].v # None}}

\* the names given with a call-style value
CallStyle(kwargs) ==
    {kwargs[i].k : i \in {j \in DOMAIN kwargs : kwargs[j].v # None
                                                 /\ is_call_arg(kwargs[j].k, kwargs[j].v)}}

\* the names op was constructed with: its bound argument inputs and the
\* scalar arguments in its spec (device and preserve are always there)
Constructed(op) == Keys(op.call_args) \cup (Keys(op.spec.args) \ {"device", "preserve"})

DuplicateError(err, k) ==
    /\ err.exc = "ValueError"
    /\ Names(err, " was already specified in __init__.")
    /\ Names(err, k)

\* a call has ended that came to construct its instances
Built == result.status # "none" /\ result.input_sets # <<>>

\* C7: a call (of valid positional inputs) that gives, with a value other than
\* None, a name the operator was constructed with raises the duplicate
\* argument error, be the values scalars, literals or DataNodes.
C7_DuplicateAnyKind ==
    Built =>
        \A k \in Supplied(result.kwargs) \cap Constructed(result.op) :
            result.status = "error" /\ DuplicateError(result.err, k)

\* C7 as amended: the call raises the duplicate argument error when the name
\* was bound at construction as an argument input and the value at call time
\* is call-style (a DataNode or a literal that is no scalar).
C7_DuplicateArgumentInput ==
    Built =>
        \A k \in CallStyle(result.kwargs) \cap Keys(result.op.call_args) :
            result.status = "error" /\ DuplicateError(result.err, k)

\* a call of two input sets raised the duplicate argument error
C7_DuplicateRaised ==
    /\ Built
    /\ Len(result.input_sets) > 1
    /\ result.status = "error"
    /\ DuplicateError(result.err, "anchor")

\* a call has ended whose number of positional inputs is outside the bound
OutOfBound ==
    /\ result.status # "none"
    /\ \/ Len(result.given) < OpSchema(result.op.cls).MinNumInput
       \/ Len(result.given) > OpSchema(result.op.cls).MaxNumInput

\* C8: a call with fewer positional inputs than the schema's minimum or more
\* than its maximum raises an error that reports "expects from <min> to <max>
\* inputs"; no id is allocated and no node, constant or other, is created.
C8_InputCountCheckedFirst ==
    OutOfBound =>
        /\ result.status = "error"
        /\ result.err.exc = "ValueError"
        /\ \E i \in DOMAIN result.err.msg :
              /\ i + 5 \in DOMAIN result.err.msg
              /\ result.err.msg[i] = " expects "
              /\ result.err.msg[i + 1] = "from "
              /\ result.err.msg[i + 2] = ToString(OpSchema(result.op.cls).MinNumInput)
              /\ result.err.msg[i + 3] = " to "
              /\ result.err.msg[i + 4] = ToString(OpSchema(result.op.cls).MaxNumInput)
              /\ result.err.msg[i + 5] = " inputs, "
        /\ result.instances = <<>>
        /\ op_count = result.count_before
        /\ \A id \in DOMAIN nodes : id < result.count_before

\* a call with more inputs than the maximum, a literal among them, has failed
C8_TooManyWithLiteral ==
    /\ OutOfBound
    /\ result.status = "error"
    /\ Len(result.given) > OpSchema(result.op.cls).MaxNumInput
    /\ \E p \in DOMAIN result.given : ~ is_input(result.given[p]) /\ Convertible(result.given[p])

\* n inputs are within the bound of the schema of cls
InBound(cls, n) == OpSchema(cls).MinNumInput <= n /\ n <= OpSchema(cls).MaxNumInput

\* C9: the length of every node's inputs (the positional inputs, then the
\* argument inputs) is within the bound of its schema, and so is the length of
\* every tuple of an expansion.
C9_InputsWithinBound ==
    /\ \A id \in DOMAIN nodes : InBound(nodes[id].cls, Len(nodes[id].inputs))
    /\ frame[1].pc = "loop" =>
          \A i \in DOMAIN frame[1].input_sets :
              InBound(frame[1].op.cls, Len(frame[1].input_sets[i]))

\* C9 as amended: the number of every node's positional inputs is within the
\* bound of its schema, its inputs are these and then one per argument input,
\* and the length of every tuple of an expansion is within the bound.
C9_PositionalWithinBound ==
    /\ \A id \in DOMAIN nodes :
          /\ InBound(nodes[id].cls, nodes[id].npos)
          /\ Len(nodes[id].inputs) = nodes[id].npos + Len(nodes[id].spec.arg_inputs)
          /\ Len(nodes[id].spec.inputs) = nodes[id].npos
    /\ frame[1].pc = "loop" =>
          \A i \in DOMAIN frame[1].input_sets :
              InBound(frame[1].op.cls, Len(frame[1].input_sets[i]))

\* a node has as many positional inputs as the bound allows, and an argument
\* input after them
C9_ArgumentInputBeyondBound ==
    \E id \in DOMAIN nodes :
        /\ nodes[id].npos = OpSchema(nodes[id].cls).MaxNumInput
        /\ Len(nodes[id].inputs) > nodes[id].npos

\* C10: of an operator constructed with a deprecated argument that the schema
\* renames, the spec holds the value under the new name and not the old name;
\* when the new name was given too, in whatever order, the construction raises
\* TypeError and there is no operator; a deprecated argument that the schema
\* removes is not in the spec.
C10_DeprecatedArguments ==
    ctor.status # "none" =>
        \A a \in Supplied(ctor.kwargs) \cap OpSchema(ctor.cls).DeprecatedArgs :
            IF OpSchema(ctor.cls).DeprecatedArgMeta[a].renamed_to # ""
            THEN IF OpSchema(ctor.cls).DeprecatedArgMeta[a].renamed_to \in Supplied(ctor.kwargs)
                 THEN /\ ctor.status = "error"
                      /\ ctor.err.exc = "TypeError"
                      /\ Names(ctor.err, "' deprecated argument when '")
                      /\ ctor.op = NoOperator
                 ELSE /\ ctor.status = "ok"
                      /\ a \notin Keys(ctor.op.spec.args)
                      /\ OpSchema(ctor.cls).DeprecatedArgMeta[a].renamed_to \in Keys(ctor.op.spec.args)
                      /\ Lookup(ctor.op.spec.args, OpSchema(ctor.cls).DeprecatedArgMeta[a].renamed_to)
                            = Lookup(ctor.kwargs, a)
            ELSE (OpSchema(ctor.cls).DeprecatedArgMeta[a].removed /\ ctor.status = "ok") =>
                     a \notin Keys(ctor.op.spec.args)

\* a construction with the new name given before the deprecated one has failed
C10_NewBeforeOld ==
    /\ ctor.status = "error"
    /\ \E i, j \in DOMAIN ctor.kwargs :
          i < j /\ ctor.kwargs[i].k = "new" /\ ctor.kwargs[j].k = "old"

\* the positions of the bare literals among the positional inputs given
Literals(given) == {p \in DOMAIN given : ~ is_input(given[p])}

\* the device a literal at position p (from 1) of a call of op is promoted on
LiteralDevice(op, p) ==
    IF p \in DOMAIN OpSchema(op.cls).InputDevice /\ OpSchema(op.cls).InputDevice[p] # ""
    THEN OpSchema(op.cls).InputDevice[p]
    ELSE IF op.device = "gpu" THEN "gpu" ELSE "cpu"

\* C11: after a call, a bare literal given at position p has become the only
\* output of a constant node created in this call, on the device the schema
\* declares for p or else on gpu for a gpu operator and on cpu for any other;
\* every node of the call has that handle as its input p; the node and the
\* handle are not those of any other literal of the call nor of any call
\* before.
C11_LiteralPromoted ==
    result.status = "ok" =>
        \A p \in Literals(result.given) :
            /\ isinstance(result.inputs[p], {"DataNode"})
            /\ result.inputs[p].source \in DOMAIN nodes
            /\ result.inputs[p].source >= result.count_before
            /\ nodes[result.inputs[p].source].cls = "Constant"
            /\ nodes[result.inputs[p].source].outputs = <<result.inputs[p]>>
            /\ nodes[result.inputs[p].source].device = LiteralDevice(result.op, p)
            /\ result.inputs[p].device = LiteralDevice(result.op, p)
            /\ \A i \in DOMAIN result.instances :
                  nodes[result.instances[i]].inputs[p] = result.inputs[p]
            /\ \A q \in Literals(result.given) \ {p} :
                  /\ result.inputs[q] # result.inputs[p]
                  /\ result.inputs[q].source # result.inputs[p].source
            /\ \A id \in DOMAIN nodes :
                  id < result.count_before =>
                      \A o \in DOMAIN nodes[id].outputs :
                          /\ nodes[id].outputs[o] # result.inputs[p]
                          /\ nodes[id].outputs[o].name # result.inputs[p].name

\* a gpu operator was called with a literal at a position the schema declares
\* a device for, after an earlier call had promoted the same literal
C11_SameLiteralAgain ==
    /\ result.status = "ok"
    /\ result.op.device = "gpu"
    /\ \E p \in Literals(result.given) :
          /\ LiteralDevice(result.op, p) = "cpu"
          /\ \E id \in DOMAIN nodes :
                id < result.count_before /\ nodes[id].cls = "Constant"

\* a call of an operator without outputs and with preserve set has ended,
\* after creating a node
SinkCall ==
    /\ result.status # "none"
    /\ result.op.preserve
    /\ OpSchema(result.op.cls).NumOutput = 0
    /\ result.instances # <<>>

\* C12: a call of an operator without outputs and with preserve set fails,
\* outside a pipeline, with the pipeline-required error and leaves the sink
\* list as it was; inside a pipeline it appends exactly one sink handle, of
\* the new node, to the sink list, the node has no outputs and the call
\* returns no handle.
C12_OneSinkPerCall ==
    SinkCall =>
        IF ~ pipeline
        THEN /\ result.status = "error"
             /\ Names(result.err, "Operators with side-effects ")
             /\ sinks = result.sinks_before
        ELSE /\ Len(sinks) = Len(result.sinks_before) + 1
             /\ SubSeq(sinks, 1, Len(result.sinks_before)) = result.sinks_before
             /\ sinks[Len(sinks)].source = result.instances[1]
             /\ \A i \in DOMAIN result.instances : nodes[result.instances[i]].outputs = <<>>
             /\ result.status = "ok" => result.value \in {<<>>, List(<<>>)}

\* C12 as amended: inside a pipeline every node the call creates appends one
\* sink handle of its own, in the order of the input sets; the nodes have no
\* outputs and the call, when it returns, returns an empty list.
C12_OneSinkPerNode ==
    SinkCall =>
        IF ~ pipeline
        THEN /\ result.status = "error"
             /\ Names(result.err, "Operators with side-effects ")
             /\ sinks = result.sinks_before
        ELSE /\ Len(sinks) = Len(result.sinks_before) + Len(result.instances)
             /\ SubSeq(sinks, 1, Len(result.sinks_before)) = result.sinks_before
             /\ \A i \in DOMAIN result.instances :
                   /\ sinks[Len(result.sinks_before) + i].source = result.instances[i]
                   /\ sinks[Len(result.sinks_before) + i].name
                         = result.op.cls \o "_id_" \o ToString(result.instances[i]) \o "_sink"
                   /\ nodes[result.instances[i]].outputs = <<>>
             /\ Len(result.instances) = ExpectedSets(result.given)
             /\ result.status = "ok" => result.value \in {<<>>, List(<<>>)}

\* inside a pipeline, a call of several input sets has returned
C12_SinksOfManySets ==
    /\ SinkCall
    /\ pipeline
    /\ result.status = "ok"
    /\ Len(result.instances) > 1

\* the outputs of the i-th node of the call that has ended
OutputsOf(i) == nodes[result.instances[i]].outputs

\* C13: a call of B input sets of an operator of K outputs returns, for
\* B = 1, the output itself when K = 1 and else the list of the K outputs;
\* for B > 1 and K = 1 the B outputs of the nodes in the order of the input
\* sets; for B > 1 and K > 1 a sequence of K sequences, the k-th holding
\* output k of the B nodes in the order of the input sets.
C13_OutputRepacking ==
    result.status = "ok" =>
        /\ \A i \in DOMAIN result.instances :
              /\ Len(OutputsOf(i)) = OpSchema(result.op.cls).NumOutput
              /\ \A k \in DOMAIN OutputsOf(i) : OutputsOf(i)[k].source = result.instances[i]
              /\ \A p \in DOMAIN result.input_sets[i] :
                    isinstance(result.input_sets[i][p], {"DataNode"}) =>
                        nodes[result.instances[i]].inputs[p] = result.input_sets[i][p]
        /\ IF Len(result.instances) = 1
           THEN IF OpSchema(result.op.cls).NumOutput = 1
                THEN result.value = OutputsOf(1)[1]
                ELSE result.value = List(OutputsOf(1))
           ELSE IF OpSchema(result.op.cls).NumOutput = 1
                THEN /\ Len(result.value) = Len(result.instances)
                     /\ \A i \in DOMAIN result.instances : result.value[i] = OutputsOf(i)[1]
                ELSE OpSchema(result.op.cls).NumOutput > 1 =>
                     /\ Len(result.value) = OpSchema(result.op.cls).NumOutput
                     /\ \A k \in DOMAIN result.value :
                           /\ Len(result.value[k]) = Len(result.instances)
                           /\ \A i \in DOMAIN result.instances :
                                 result.value[k][i] = OutputsOf(i)[k]

\* a call of the longest list of input sets of an operator of two outputs has
\* returned
C13_ManySetsManyOutputs ==
    /\ result.status = "ok"
    /\ Len(result.instances) = MaxList
    /\ OpSchema(result.op.cls).NumOutput > 1

\* the outputs in the graph: (node id, index) pairs
OutputSlots ==
    UNION {{[id |-> id, k |-> k] : k \in DOMAIN nodes[id].outputs} : id \in DOMAIN nodes}

DefaultName(inst) == "__" \o inst.cls \o "_" \o ToString(inst.id)

\* the name the keyword arguments of the call and of the construction give, or ""
NameGiven(op, kwargs) ==
    IF "name" \in Supplied(kwargs) THEN Lookup(kwargs, "name").s
    ELSE IF "name" \in Keys(op.call_args) THEN Lookup(op.call_args, "name").s
    ELSE ""

\* the nodes of the call that returned are named by the name keyword or else
\* "__" + type + "_" + id, and their outputs after them, with the index in
\* brackets when there are several
NamedByRule ==
    result.status = "ok" =>
        \A i \in DOMAIN result.instances :
            /\ nodes[result.instances[i]].name
                  = IF NameGiven(result.op, result.kwargs) # ""
                    THEN NameGiven(result.op, result.kwargs)
                    ELSE DefaultName(nodes[result.instances[i]])
            /\ \A k \in DOMAIN OutputsOf(i) :
                  OutputsOf(i)[k].name
                     = IF Len(OutputsOf(i)) > 1
                       THEN nodes[result.instances[i]].name \o "[" \o ToString(k - 1) \o "]"
                       ELSE nodes[result.instances[i]].name

\* C14: the names of the outputs in the graph are pairwise distinct, the nodes
\* being named by the name keyword or else "__" + type + "_" + id and the
\* outputs after their node; also for the nodes of a call of several input
\* sets with a name, and of two calls with the same name.
C14_OutputNamesDistinct ==
    /\ NamedByRule
    /\ \A a, b \in OutputSlots :
          a # b => nodes[a.id].outputs[a.k].name # nodes[b.id].outputs[b.k].name

\* C14 as amended: the outputs of the nodes that have their default name are
\* pairwise distinct in name, and so are the outputs of one node; the nodes
\* given a name all have that name.
C14_DefaultNamesDistinct ==
    /\ NamedByRule
    /\ \A a, b \in OutputSlots :
          (/\ a # b
           /\ (a.id = b.id \/ (/\ nodes[a.id].name = DefaultName(nodes[a.id])
                                /\ nodes[b.id].name = DefaultName(nodes[b.id]))))
          => nodes[a.id].outputs[a.k].name # nodes[b.id].outputs[b.k].name

\* a call of two input sets with a name returned, after a call with the same
\* name
C14_SameNameTwice ==
    /\ result.status = "ok"
    /\ Len(result.instances) > 1
    /\ "name" \in Supplied(result.kwargs)
    /\ \E id \in DOMAIN nodes :
          id < result.count_before /\ nodes[id].name = Lookup(result.kwargs, "name").s

\* the value _separate_kwargs stores for the value given
Stored(value) == IF isinstance(value, {"ScalarConstant"}) THEN PyInt(value.value) ELSE value

\* the keyword is construction-style, by the precedence of the rules
ConstructionStyle(name, value) ==
    \/ name \in {"device", "ndim"}
    \/ /\ name # "name"
       /\ ~ isinstance(value, {"DataNode"})
       /\ \/ isinstance(value, {"str", "list", "tuple", "ScalarConstant"})
          \/ _is_scalar_value(value)

\* the keyword arguments without those whose value is None
Omitted(kwargs) == SelectSeq(kwargs, LAMBDA e : e.v # None)

\* the node _OperatorInstance and generate_outputs make, in the graph as it
\* was before node id, of the inputs and keyword arguments
NodeOf(id, inputs, op, kwargs) ==
    generate_outputs(_OperatorInstance_init([op_count |-> id,
                                             nodes |-> [n \in {m \in DOMAIN nodes : m < id} |-> nodes[n]]],
                                            inputs, op, kwargs, conditionals, 0 - 1).inst,
                     <<>>, pipeline).inst

\* the node of a call that returned is the node the call makes without the
\* keywords whose value is None
NoneAsOmitted ==
    (result.status = "ok" /\ Len(result.instances) = 1) =>
        nodes[result.instances[1]]
            = NodeOf(result.instances[1], result.input_sets[1], result.op, Omitted(result.kwargs))

\* C15: _separate_kwargs yields two mappings of disjoint keys that together
\* hold exactly the keywords whose value is not None; a keyword is classified
\* by the first rule that applies: device and ndim are construction-style,
\* name is call-style, a DataNode is call-style, a string, list, tuple or
\* ScalarConstant is construction-style, a scalar is construction-style and
\* anything else call-style; a ScalarConstant is stored unwrapped, any other
\* value as given.  A call with a keyword whose value is None makes the node
\* it makes without the keyword.
C15_Classification ==
    /\ NoneAsOmitted
    /\ returned.fn = "_separate_kwargs" =>
        /\ Keys(returned.value.init_args) \cap Keys(returned.value.call_args) = {}
        /\ Keys(returned.value.init_args) \cup Keys(returned.value.call_args)
              = Supplied(returned.args)
        /\ IsDict(returned.value.init_args) /\ IsDict(returned.value.call_args)
        /\ \A i \in DOMAIN returned.args :
              returned.args[i].v # None =>
                  IF ConstructionStyle(returned.args[i].k, returned.args[i].v)
                  THEN /\ returned.args[i].k \in Keys(returned.value.init_args)
                       /\ Lookup(returned.value.init_args, returned.args[i].k)
                             = Stored(returned.args[i].v)
                  ELSE /\ returned.args[i].k \in Keys(returned.value.call_args)
                       /\ Lookup(returned.value.call_args, returned.args[i].k)
                             = returned.args[i].v

\* device was given as a DataNode next to a ScalarConstant and classified
C15_ReservedNameWithHandle ==
    /\ returned.fn = "_separate_kwargs"
    /\ \E i, j \in DOMAIN returned.args :
          /\ returned.args[i].k = "device" /\ isinstance(returned.args[i].v, {"DataNode"})
          /\ isinstance(returned.args[j].v, {"ScalarConstant"})

\* the outputs of the nodes of the call that has ended, one node after the other
RECURSIVE OutputsFrom(_)
OutputsFrom(i) ==
    IF i > Len(result.instances) THEN <<>> ELSE OutputsOf(i) \o OutputsFrom(i + 1)

\* a call has ended in which generate_outputs ran to its end for every node
\* created, of an operator of at least one output
Materialized ==
    /\ result.status # "none"
    /\ result.instances # <<>>
    /\ OpSchema(result.op.cls).NumOutput > 0
    /\ ~ Names(result.err, "Operators with side-effects ")

\* C16: a node of an operator of A > 0 outputs gets exactly A outputs, each
\* with this node as its source, named as the node when A = 1 and as the node
\* with [i], i = 0..A-1, when A > 1, in this order; with preserve set the
\* outputs are appended to the sink list in the same order, and without it
\* the sink list stays as it was.
C16_OutputsMaterialized ==
    Materialized =>
        /\ \A i \in DOMAIN result.instances :
              /\ Len(OutputsOf(i)) = OpSchema(result.op.cls).NumOutput
              /\ \A k \in DOMAIN OutputsOf(i) :
                    /\ OutputsOf(i)[k].source = result.instances[i]
                    /\ OutputsOf(i)[k].name
                          = IF OpSchema(result.op.cls).NumOutput = 1
                            THEN nodes[result.instances[i]].name
                            ELSE nodes[result.instances[i]].name \o "[" \o ToString(k - 1) \o "]"
                    /\ nodes[result.instances[i]].spec.outputs[k].name = OutputsOf(i)[k].name
              /\ Len(nodes[result.instances[i]].spec.outputs) = OpSchema(result.op.cls).NumOutput
        /\ sinks = IF result.op.preserve THEN result.sinks_before \o OutputsFrom(1)
                   ELSE result.sinks_before

\* a call of several input sets of an operator of two outputs with preserve
\* set has ended
C16_PreservedOutputs ==
    /\ Materialized
    /\ result.op.preserve
    /\ OpSchema(result.op.cls).NumOutput > 1
    /\ Len(result.instances) > 1

\* the names of the argument inputs of a call of op with kwargs: those bound
\* at construction and those given at call time, name left out
MergedKeys(op, kwargs) == (Keys(op.call_args) \cup CallStyle(kwargs)) \ {"name"}

\* the value given for the argument input k
MergedValue(op, kwargs, k) ==
    IF k \in CallStyle(kwargs) THEN Lookup(kwargs, k) ELSE Lookup(op.call_args, k)

\* the place of k among the keys in ascending order
PlaceOf(keys, k) == Cardinality({j \in keys : Rank(j) <= Rank(k)})

\* C17: the inputs of a node are the positional inputs in the order of the
\* call, and after them the argument inputs, those bound at construction and
\* those given at call time, in ascending order of their names, name not
\* being one of them; the order in which the keywords were written plays no
\* part.
C17_InputOrder ==
    result.status = "ok" =>
        \A i \in DOMAIN result.instances :
            /\ nodes[result.instances[i]].npos = Len(result.input_sets[i])
            /\ SubSeq(nodes[result.instances[i]].inputs, 1, Len(result.input_sets[i]))
                  = result.input_sets[i]
            /\ Len(nodes[result.instances[i]].inputs)
                  = Len(result.input_sets[i]) + Cardinality(MergedKeys(result.op, result.kwargs))
            /\ Len(nodes[result.instances[i]].spec.arg_inputs)
                  = Cardinality(MergedKeys(result.op, result.kwargs))
            /\ \A k \in MergedKeys(result.op, result.kwargs) :
                  /\ nodes[result.instances[i]].spec.arg_inputs[
                         PlaceOf(MergedKeys(result.op, result.kwargs), k)].k = k
                  /\ nodes[result.instances[i]].spec.arg_inputs[
                         PlaceOf(MergedKeys(result.op, result.kwargs), k)].name
                        = ArgumentInputOf(nodes[result.instances[i]], k).name
                  /\ ArgumentInputOf(nodes[result.instances[i]], k)
                        = nodes[result.instances[i]].inputs[
                             Len(result.input_sets[i])
                             + PlaceOf(MergedKeys(result.op, result.kwargs), k)]
                  /\ IF isinstance(MergedValue(result.op, result.kwargs, k), {"DataNode"})
                     THEN ArgumentInputOf(nodes[result.instances[i]], k)
                            = MergedValue(result.op, result.kwargs, k)
                     ELSE nodes[ArgumentInputOf(nodes[result.instances[i]], k).source].cls
                            = "Constant"

\* a call returned whose keywords were written in descending order of their
\* names, name among them, of an operator with two positional inputs
C17_WrittenDescending ==
    /\ result.status = "ok"
    /\ Len(result.given) = 2
    /\ Len(result.kwargs) = 3
    /\ result.kwargs[1].k = "size" /\ result.kwargs[2].k = "name" /\ result.kwargs[3].k = "anchor"

\* the argument inputs of a call of op with kwargs that the schema does not
\* take as tensors
Rejected(op, kwargs) ==
    {k \in MergedKeys(op, kwargs) :
        /\ MergedValue(op, kwargs, k) # None
        /\ k \notin OpSchema(op.cls).TensorArguments}

\* the literal argument inputs the schema takes, which come before k
PromotedBefore(op, kwargs, k) ==
    {j \in MergedKeys(op, kwargs) \ Rejected(op, kwargs) :
        /\ MergedValue(op, kwargs, j) # None
        /\ ~ isinstance(MergedValue(op, kwargs, j), {"DataNode"})
        /\ Rank(j) < Rank(k)}

\* C18: an argument input under a name the schema does not mark as a tensor
\* argument is refused with the error of _check_arg_input, when bound at
\* construction and when given at call time; a literal argument input is made
\* a constant node on cpu only when the name is accepted, so that a refused
\* argument input leaves no constant node behind.
C18_RejectedBeforePromotion ==
    /\ (ctor.status # "none"
          /\ \E e \in Range(_separate_kwargs(ctor.kwargs).call_args) :
                _check_arg_input(OpSchema(ctor.cls), ctor.cls, e.k) # NoError)
        => (ctor.status = "error"
            /\ \E e \in Range(_separate_kwargs(ctor.kwargs).call_args) :
                  ctor.err = _check_arg_input(OpSchema(ctor.cls), ctor.cls, e.k))
    /\ (result.status # "none" /\ result.input_sets # <<>>
          /\ Rejected(result.op, result.kwargs) # {})
        => (result.status = "error"
            /\ \E k \in Rejected(result.op, result.kwargs) :
                  /\ result.err = _check_arg_input(OpSchema(result.op.cls), result.op.cls, k)
                  /\ Cardinality({id \in DOMAIN nodes : /\ id >= result.count_before
                                                          /\ nodes[id].cls = "Constant"})
                       = Cardinality(PromotedBefore(result.op, result.kwargs, k)))
    /\ result.status = "ok" =>
          \A i \in DOMAIN result.instances : \A k \in MergedKeys(result.op, result.kwargs) :
              (MergedValue(result.op, result.kwargs, k) # None
                 /\ ~ isinstance(MergedValue(result.op, result.kwargs, k), {"DataNode"}))
              => /\ ArgumentInputOf(nodes[result.instances[i]], k).device = "cpu"
                 /\ nodes[ArgumentInputOf(nodes[result.instances[i]], k).source].device = "cpu"

\* the deprecated arguments among kwargs, in the order they were written
DeprecatedGiven(schema, kwargs) ==
    SelectSeq(kwargs, LAMBDA e : e.k \in schema.DeprecatedArgs)

\* C19 as stated: a construction with deprecated arguments and no conflict,
\* and a call of a deprecated operator with any number of input sets, both
\* succeed and both emit exactly one deprecation warning, which holds the
\* message the schema supplies.
C19_OneWarningPerCall ==
    /\ (ctor.status # "none" /\ DeprecatedGiven(OpSchema(ctor.cls), ctor.kwargs) # <<>>)
       => /\ ctor.status = "ok"
          /\ Len(ctor.warnings) = 1
          /\ ctor.warnings[1]
               = OpSchema(ctor.cls).DeprecatedArgMeta[
                     DeprecatedGiven(OpSchema(ctor.cls), ctor.kwargs)[1].k].msg
    /\ (result.status = "ok" /\ OpSchema(result.op.cls).Deprecated)
       => /\ Len(result.warnings) = 1
          /\ result.warnings[1] = DeprecatedMessage(OpSchema(result.op.cls), result.op.cls)

\* C19 as the code has it: a construction emits one warning for each
\* deprecated argument given, with the message of that argument, and a call
\* of a deprecated operator one warning for each node it creates, with the
\* name of the operator, the operator to use instead and the explanation of
\* the schema; both succeed, but for the call of several input sets under
\* conditional execution, which fails after its warnings.
C19_WarningPerArgumentAndNode ==
    /\ (ctor.status # "none" /\ DeprecatedGiven(OpSchema(ctor.cls), ctor.kwargs) # <<>>)
       => /\ ctor.status = "ok"
          /\ ctor.warnings
               = [i \in DOMAIN DeprecatedGiven(OpSchema(ctor.cls), ctor.kwargs) |->
                     OpSchema(ctor.cls).DeprecatedArgMeta[
                         DeprecatedGiven(OpSchema(ctor.cls), ctor.kwargs)[i].k].msg]
    /\ (result.status # "none" /\ OpSchema(result.op.cls).Deprecated)
       => /\ (conditionals /\ Len(result.input_sets) > 1) \/ result.status = "ok"
          /\ result.warnings
               = [i \in DOMAIN result.instances |->
                     <<"WARNING: ", "fn.legacy", " is now deprecated", ". Use ", "fn.crop",
                       " instead.", "\n", "Legacy is slow">>]
    /\ (result.status # "none" /\ ~ OpSchema(result.op.cls).Deprecated)
       => result.warnings = <<>>

\* a deprecated operator was called with three input sets
C19_DeprecatedManySets ==
    /\ result.status = "ok"
    /\ OpSchema(result.op.cls).Deprecated
    /\ Len(result.instances) = 3

\* a construction creates no node and takes no id
ConstructionFrame ==
    (ctor' # ctor /\ ctor'.status # "none")
    => (op_count' = op_count /\ nodes' = nodes /\ sinks' = sinks)

\* only a construction changes the descriptor
DescriptorFrame ==
    (ctor'.status = "none" \/ ctor' = ctor) => operator' = operator

\* the nodes there are stay, with their id, name, inputs and outputs
NodesFrame ==
    \A id \in DOMAIN nodes :
        /\ id \in DOMAIN nodes'
        /\ nodes'[id].id = nodes[id].id
        /\ nodes'[id].name = nodes[id].name
        /\ nodes'[id].inputs = nodes[id].inputs
        /\ nodes'[id].outputs = nodes[id].outputs

\* the nodes of a call hold the arguments of the construction and of that
\* call, and no others
OwnArguments ==
    result.status = "ok" =>
        \A i \in DOMAIN result.instances :
            /\ nodes[result.instances[i]].spec.args
                  = _add_spec_args(operator.spec, _separate_kwargs(result.kwargs).init_args).args
            /\ {e.k : e \in Range(nodes[result.instances[i]].spec.arg_inputs)}
                  = MergedKeys(operator, result.kwargs)
            /\ Len(nodes[result.instances[i]].spec.inputs) = Len(result.input_sets[i])

\* C20: a construction creates no node and takes no id; calls leave the
\* descriptor (its arguments, its bound argument inputs and its spec) as it
\* was built, so that a node holds the arguments of the construction and of
\* its own call only; every step leaves the id, name, inputs and outputs of
\* the nodes there are unchanged.
C20_DescriptorsReusable ==
    /\ [][ConstructionFrame /\ DescriptorFrame /\ NodesFrame]_vars
    /\ [] OwnArguments

\* a call without keyword arguments returned after a call of the same
\* descriptor that was given size
C20_CalledAgainWithout ==
    /\ result.status = "ok"
    /\ result.kwargs = <<>>
    /\ result.op.cls = "Crop"
    /\ "size" \notin Keys(result.op.spec.args)
    /\ \E id \in DOMAIN nodes :
          /\ id < result.count_before
          /\ nodes[id].cls = "Crop"
          /\ "size" \in Keys(nodes[id].spec.args)

\* the preserve argument the descriptor of inst was given
ExplicitPreserve(inst) ==
    "preserve" \in Keys(inst.spec.args) /\ Lookup(inst.spec.args, "preserve").b

\* every sink was made by a node of a descriptor whose preserve flag, the
\* argument or the no-prune mark of the schema, is set
SinksOfPreserved ==
    \A i \in DOMAIN sinks :
        /\ sinks[i].source \in DOMAIN nodes
        /\ nodes[sinks[i].source].preserve
        /\ ExplicitPreserve(nodes[sinks[i].source])
             \/ OpSchema(nodes[sinks[i].source].cls).NoPrune

\* a node of a descriptor with neither made no sink
NoSinkUnpreserved ==
    \A id \in DOMAIN nodes :
        (~ ExplicitPreserve(nodes[id]) /\ ~ OpSchema(nodes[id].cls).NoPrune)
        => \A i \in DOMAIN sinks : sinks[i].source # id

\* the sink list grows at its end only
SinksAppended ==
    /\ Len(sinks') >= Len(sinks)
    /\ SubSeq(sinks', 1, Len(sinks)) = sinks

\* C21: over any sequence of calls the sink list is only appended to, and
\* every handle in it was produced by a node whose descriptor has preserve
\* set, by the argument or by the no-prune mark of its schema; a node of a
\* descriptor without it contributes no sink, even when it has no outputs.
C21_SinksAppendOnly ==
    /\ [][SinksAppended]_vars
    /\ [](SinksOfPreserved /\ NoSinkUnpreserved)

\* the sink list holds the output of a node kept by the no-prune mark alone,
\* and there is a node without outputs and without preserve
C21_NoPruneSinkAndSilentDump ==
    /\ \E i \in DOMAIN sinks :
          /\ nodes[sinks[i].source].cls = "Keep"
          /\ ~ ExplicitPreserve(nodes[sinks[i].source])
    /\ \E id \in DOMAIN nodes :
          nodes[id].cls = "Dump" /\ ~ nodes[id].preserve /\ nodes[id].outputs = <<>>
    /\ Len(sinks) >= 2

\* the calls of register_data_nodes among the calls of the hook
Registrations(hook) == SelectSeq(hook, LAMBDA h : h.fn = "register_data_nodes")

\* C22: with conditional execution enabled a call of more than one input set
\* fails and returns nothing, and register_data_nodes is run only for a call
\* of exactly one input set, once, after the outputs of its node were
\* generated and with them; with it disabled the hook is never invoked and a
\* call of several input sets returns its outputs.
C22_ConditionalHook ==
    result.status # "none" =>
        IF conditionals
        THEN /\ Len(result.input_sets) > 1
                  => (result.status = "error" /\ result.value = None)
             /\ Len(Registrations(result.hook)) = (IF result.status = "ok" THEN 1 ELSE 0)
             /\ result.status = "ok"
                  => /\ Len(result.input_sets) = 1
                     /\ Len(result.instances) = 1
                     /\ result.hook[Len(result.hook)]
                          = [fn |-> "register_data_nodes",
                             value |-> unwrapped_outputs(nodes[result.instances[1]]),
                             inputs |-> result.input_sets[1], kwargs |-> result.kwargs]
                     /\ result.value = unwrapped_outputs(nodes[result.instances[1]])
                     /\ Len(nodes[result.instances[1]].outputs)
                          = OpSchema(result.op.cls).NumOutput
        ELSE /\ result.hook = <<>>
             /\ (Len(result.input_sets) > 1 /\ Len(result.instances) = Len(result.input_sets))
                  => result.status = "ok"

\* with conditional execution enabled a call of two input sets failed after
\* both its nodes were built
C22_ManySetsRefused ==
    /\ conditionals
    /\ result.status = "error"
    /\ Len(result.instances) = 2
    /\ Len(result.hook) = 2

====
